---- MODULE Spec2Model ----
(***************************************************************************)
(* Governance middleware of Roo-Code: the hook registry and middleware     *)
(* pipeline, the required pre- and post-hooks, the optimistic lock manager *)
(* and the trace journal, as a state machine.                              *)
(*                                                                         *)
(* Strings the code inspects character by character (paths, globs, shell   *)
(* commands) are kept as TLA+ strings in the state and unfolded to tuples  *)
(* of characters by Chars when the code looks inside them.                 *)
(***************************************************************************)
EXTENDS Integers, Sequences, FiniteSets, TLC

(***************************************************************************)
(* Bounds of the model.                                                    *)
(***************************************************************************)
\* number of pipeline calls started in one behaviour of Spec
MaxCalls == 1
\* number of write_to_file calls started in one behaviour of WriteSpec
MaxWrites == 2
\* last value of the clock, in milliseconds
MaxTime == 90000
\* the session manager's clock stops here
MaxSessionTime == 360000

\* step of the clock, in milliseconds
TickMs == 30000

\* acquireLock: "If lock is older than 30 seconds, consider it stale"
StaleLockMs == 30000
\* startCleanupInterval: "1 minute timeout"
ReapLockMs == 60000
\* the period of the FallbackRegistry's health check
HealthCheckMs == 60000
\* the period of the session manager's health check, and the age at which it
\* takes a session for stale
SessionCheckMs == 60000
StaleSessionMs == 300000

(***************************************************************************)
(* Values.                                                                 *)
(***************************************************************************)
Undefined == "undefined"
Absent == "ENOENT"

\* conversationIds of the agent sessions
Sessions == {"A", "B"}

\* s/a is inside the scope of INT-001, s/A only differs in case
Paths == {"s/a", "s/A"}

\* the paths hosts lock directly: s/b is a second file
LockPaths == Paths \cup {"s/b"}

\* file contents: the empty file and a one-line file
Contents == {"", "x"}
\* what write_to_file is asked to write
WriteContents == {"x"}
\* what the traced writes write: a line, and the line with a trailing blank
TraceContents == {"x", "x "}

Commands == {"git push --force", "ls", "up", "npm install", "a.log"}

\* the scope globs and the paths the scope check is asked about
ScopeGlobs == {"s/a", "s/a*", "s/*", "s/**", "s?a", "s/[a]", "s/(a", "s/a+"}
ScopePaths == {"s/a", "s/A", "s/ab", "s/d/a", "s/[a]", "s/a+"}

\* the commands classify is asked about: those, the other package-manager
\* installs, and a command that a destructive and a safe pattern both match
ClassifyCommands == Commands \cup {"pnpm add", "pip install", "ls reboot"}

Tools == {"select_active_intent", "write_to_file", "execute_command",
          "apply_diff", "search_and_replace", "read_file"}

\* INT-404 is an id no entry of the store carries
IntentIds == {"INT-001", "INT-002", "INT-404"}

Chars ==
  ("" :> <<>>) @@
  ("x" :> <<"x">>) @@
  ("x " :> <<"x", " ">>) @@
  ("git push --force" :> <<"g", "i", "t", " ", "p", "u", "s", "h", " ", "-", "-", "f", "o", "r", "c", "e">>) @@
  ("ls" :> <<"l", "s">>) @@
  ("up" :> <<"u", "p">>) @@
  ("npm install" :> <<"n", "p", "m", " ", "i", "n", "s", "t", "a", "l", "l">>) @@
  ("a.log" :> <<"a", ".", "l", "o", "g">>) @@
  ("pnpm add" :> <<"p", "n", "p", "m", " ", "a", "d", "d">>) @@
  ("pip install" :> <<"p", "i", "p", " ", "i", "n", "s", "t", "a", "l", "l">>) @@
  ("ls reboot" :> <<"l", "s", " ", "r", "e", "b", "o", "o", "t">>) @@
  ("s/a" :> <<"s", "/", "a">>) @@
  ("s/A" :> <<"s", "/", "A">>) @@
  ("s/b" :> <<"s", "/", "b">>) @@
  ("s/a*" :> <<"s", "/", "a", "*">>) @@
  ("*.log" :> <<"*", ".", "l", "o", "g">>) @@
  ("node_modules/**" :> <<"n", "o", "d", "e", "_", "m", "o", "d", "u", "l", "e", "s", "/", "*", "*">>) @@
  (".git/**" :> <<".", "g", "i", "t", "/", "*", "*">>) @@
  ("dist/**" :> <<"d", "i", "s", "t", "/", "*", "*">>) @@
  ("function f(){ /* TODO: fix */ return 1; }" :> <<"f", "u", "n", "c", "t", "i", "o", "n", " ", "f", "(", ")", "{", " ", "/", "*", " ", "T", "O", "D", "O", ":", " ", "f", "i", "x", " ", "*", "/", " ", "r", "e", "t", "u", "r", "n", " ", "1", ";", " ", "}">>) @@
  ("function f(){ return 1; }" :> <<"f", "u", "n", "c", "t", "i", "o", "n", " ", "f", "(", ")", "{", " ", "r", "e", "t", "u", "r", "n", " ", "1", ";", " ", "}">>) @@
  ("function f(){ /* FIXME */ g(); return 1; }" :> <<"f", "u", "n", "c", "t", "i", "o", "n", " ", "f", "(", ")", "{", " ", "/", "*", " ", "F", "I", "X", "M", "E", " ", "*", "/", " ", "g", "(", ")", ";", " ", "r", "e", "t", "u", "r", "n", " ", "1", ";", " ", "}">>) @@
  ("function f(){ g(); return 1; }" :> <<"f", "u", "n", "c", "t", "i", "o", "n", " ", "f", "(", ")", "{", " ", "g", "(", ")", ";", " ", "r", "e", "t", "u", "r", "n", " ", "1", ";", " ", "}">>) @@
  ("/** @returns 1 */ function f(){ return 1; }" :> <<"/", "*", "*", " ", "@", "r", "e", "t", "u", "r", "n", "s", " ", "1", " ", "*", "/", " ", "f", "u", "n", "c", "t", "i", "o", "n", " ", "f", "(", ")", "{", " ", "r", "e", "t", "u", "r", "n", " ", "1", ";", " ", "}">>) @@
  ("TODO" :> <<"T", "O", "D", "O">>) @@
  ("FIXME" :> <<"F", "I", "X", "M", "E">>) @@
  ("*" :> <<"*">>) @@
  ("@" :> <<"@">>) @@
  ("@param" :> <<"@", "p", "a", "r", "a", "m">>) @@
  ("@returns" :> <<"@", "r", "e", "t", "u", "r", "n", "s">>) @@
  ("@throws" :> <<"@", "t", "h", "r", "o", "w", "s">>) @@
  ("forEach" :> <<"f", "o", "r", "E", "a", "c", "h">>) @@
  ("for(" :> <<"f", "o", "r", "(">>) @@
  ("s/*" :> <<"s", "/", "*">>) @@
  ("s?a" :> <<"s", "?", "a">>) @@
  ("s/[a]" :> <<"s", "/", "[", "a", "]">>) @@
  ("s/(a" :> <<"s", "/", "(", "a">>) @@
  ("s/a+" :> <<"s", "/", "a", "+">>) @@
  ("s/ab" :> <<"s", "/", "a", "b">>) @@
  ("s/d/a" :> <<"s", "/", "d", "/", "a">>) @@
  ("g()" :> <<"g", "(", ")">>) @@
  ("s/**" :> <<"s", "/", "*", "*">>)

Len0(s) == Len(Chars[s])

\* the string whose characters are t
FromChars(t) == CHOOSE s \in DOMAIN Chars : Chars[s] = t

toLowerCase(c) ==
  CASE c = "A" -> "a"
    [] c = "S" -> "s"
    [] OTHER -> c

\* a normalisation that keeps the case of the path
normalizePathKeepCase(filePath) ==
  LET Slashed(t) == FromChars([i \in DOMAIN t |-> IF t[i] = "\\" THEN "/" ELSE t[i]])
  IN  Slashed(Chars[filePath])

\* filePath.replace(/\\/g, "/").toLowerCase()
normalizePath(filePath) ==
  LET Lowered(t) ==
        FromChars([i \in DOMAIN t |-> toLowerCase(IF t[i] = "\\" THEN "/" ELSE t[i])])
  IN  Lowered(Chars[filePath])

\* createHash("sha256").update(content).digest("hex"), taken as collision free;
\* no digest is the empty string
sha256(content) == "sha256:" \o content

(***************************************************************************)
(* Intent store (.orchestration/active_intents.yaml).                      *)
(***************************************************************************)
active_intents ==
  << [id |-> "INT-001", owned_scope |-> <<"s/a*">>],
     [id |-> "INT-002", owned_scope |-> <<>>] >>

loadActiveIntents == active_intents

\* the result of Array.find when no entry has the id
NotFound == [id |-> Undefined, owned_scope |-> <<>>]

\* what .orchestration/active_intents.yaml can hold: nothing (no file), text
\* that is not YAML, an empty document, a scalar, a mapping whose
\* active_intents is null, a number or a list with a null entry, and the list
\* of intents
StoreFiles ==
  {Absent, "invalid: yaml: content: [unclosed", "", "text", "active_intents:",
   "active_intents: 5", "active_intents: [null]", "active_intents: [INT-001, INT-002]"}

\* fs.readFile(intentPath, "utf-8")
readFile(file) ==
  IF file = Absent THEN [threw |-> TRUE, value |-> Undefined]
  ELSE [threw |-> FALSE, value |-> file]

\* what yaml.load makes of the content: the kind of the document, the kind of
\* its active_intents, and the entries when that is a list
YamlValue(kind, listKind, items) ==
  [threw |-> FALSE, kind |-> kind, active_intents |-> [kind |-> listKind, items |-> items]]

\* a null among the entries of active_intents
NullEntry == [id |-> "null", owned_scope |-> <<>>]

YamlThrows == [YamlValue(Undefined, Undefined, <<>>) EXCEPT !.threw = TRUE]

yamlLoad(content) ==
  CASE content = "invalid: yaml: content: [unclosed" -> YamlThrows
    [] content = "" -> YamlValue(Undefined, Undefined, <<>>)
    [] content = "text" -> YamlValue("string", Undefined, <<>>)
    [] content = "active_intents:" -> YamlValue("object", "null", <<>>)
    [] content = "active_intents: 5" -> YamlValue("object", "number", <<>>)
    [] content = "active_intents: [null]" -> YamlValue("object", "array", <<NullEntry>>)
    [] content = "active_intents: [INT-001, INT-002]" ->
         YamlValue("object", "array", active_intents)

\* { active_intents: [] }
EmptyStore == YamlValue("object", "array", <<>>)

\* loadActiveIntents over a store file
loadActiveIntentsFrom(file) ==
  LET Parsed(data) ==
        IF data.threw THEN EmptyStore
        ELSE IF data.kind = Undefined THEN EmptyStore ELSE data
      Read(content) ==
        IF content.threw THEN EmptyStore ELSE Parsed(yamlLoad(content.value))
  IN  Read(readFile(file))

\* intents.active_intents?.find((i) => i.id === intentId): a TypeError when
\* active_intents has no find, or when find comes to a null entry
RECURSIVE ArrayFindById(_, _, _)
ArrayFindById(items, k, intentId) ==
  IF k > Len(items) THEN [threw |-> FALSE, value |-> NotFound]
  ELSE IF items[k] = NullEntry THEN [threw |-> TRUE, value |-> NotFound]
  ELSE IF items[k].id = intentId THEN [threw |-> FALSE, value |-> items[k]]
  ELSE ArrayFindById(items, k + 1, intentId)

getIntentByIdFrom(file, intentId) ==
  LET Find(intents) ==
        IF intents.threw THEN [threw |-> TRUE, value |-> NotFound]
        ELSE IF intents.active_intents.kind \in {Undefined, "null"}
        THEN [threw |-> FALSE, value |-> NotFound]
        ELSE IF intents.active_intents.kind # "array"
        THEN [threw |-> TRUE, value |-> NotFound]
        ELSE ArrayFindById(intents.active_intents.items, 1, intentId)
  IN  Find(loadActiveIntentsFrom(file))

getIntentById(intentId) ==
  LET Find(intents) ==
        LET First(hits) ==
              IF hits = {} THEN NotFound
              ELSE intents[CHOOSE i \in hits : \A j \in hits : i <= j]
        IN  First({i \in DOMAIN intents : intents[i].id = intentId})
  IN  Find(loadActiveIntents)

\* new RegExp(`^${pattern}`).test(filePath) for the pattern validateIntentScope
\* builds: "." is escaped to a literal, "*" becomes ".*", "?" becomes ".";
\* what else the scope holds stays as it is and means what it means in a
\* regular expression: "[...]" is a character class and "+" repeats the atom
\* before it
RECURSIVE ScopeRegexMatch(_, _, _, _)
ScopeRegexMatch(pat, i, str, j) ==
  IF i > Len(pat) THEN TRUE
  ELSE IF pat[i] = "*"
       THEN \E k \in j..(Len(str) + 1) : ScopeRegexMatch(pat, i + 1, str, k)
  ELSE LET Atom(last) ==
             LET Is(c) == IF pat[i] = "?" THEN TRUE
                          ELSE IF pat[i] = "[" THEN \E d \in (i + 1)..(last - 1) : pat[d] = c
                          ELSE c = pat[i]
             IN  IF last < Len(pat) /\ pat[last + 1] = "+"
                 THEN \E k \in (j + 1)..(Len(str) + 1) :
                        /\ \A n \in j..(k - 1) : Is(str[n])
                        /\ ScopeRegexMatch(pat, last + 2, str, k)
                 ELSE /\ j <= Len(str)
                      /\ Is(str[j])
                      /\ ScopeRegexMatch(pat, last + 1, str, j + 1)
       IN  Atom(IF pat[i] = "["
                THEN CHOOSE c \in (i + 1)..Len(pat) :
                       pat[c] = "]" /\ \A d \in (i + 1)..(c - 1) : pat[d] # "]"
                ELSE i)

\* whether new RegExp throws a SyntaxError for the pattern: a group or a
\* class that is not closed, or a "+" with nothing to repeat
ScopeRegexThrows(pat) ==
  \/ \E i \in DOMAIN pat : pat[i] = "(" /\ \A c \in (i + 1)..Len(pat) : pat[c] # ")"
  \/ \E i \in DOMAIN pat : pat[i] = "[" /\ \A c \in (i + 1)..Len(pat) : pat[c] # "]"
  \/ pat # <<>> /\ pat[1] = "+"

\* the callback of owned_scope.some: whether the scope's regular expression
\* matches the path
scopeMatches(scope, filePath) ==
  IF ScopeRegexThrows(Chars[scope]) THEN [threw |-> TRUE, value |-> FALSE]
  ELSE [threw |-> FALSE, value |-> ScopeRegexMatch(Chars[scope], 1, Chars[filePath], 1)]

\* a scope check that asks every glob to match
validateIntentScopeEvery(intentId, filePath) ==
  LET InScope(intent) ==
        IF intent = NotFound THEN FALSE
        ELSE \A k \in DOMAIN intent.owned_scope :
               ScopeRegexMatch(Chars[intent.owned_scope[k]], 1, Chars[filePath], 1)
  IN  InScope(getIntentById(intentId))

validateIntentScope(intentId, filePath) ==
  LET InScope(intent) ==
        IF intent = NotFound THEN FALSE
        ELSE \E k \in DOMAIN intent.owned_scope :
               ScopeRegexMatch(Chars[intent.owned_scope[k]], 1, Chars[filePath], 1)
  IN  InScope(getIntentById(intentId))

\* validateIntentScope over a store file
validateIntentScopeFrom(file, intentId, filePath) ==
  LET InScope(intent) ==
        IF intent.threw THEN [threw |-> TRUE, value |-> FALSE]
        ELSE IF intent.value = NotFound THEN [threw |-> FALSE, value |-> FALSE]
        ELSE [threw |-> FALSE,
              value |-> \E k \in DOMAIN intent.value.owned_scope :
                          ScopeRegexMatch(Chars[intent.value.owned_scope[k]], 1,
                                          Chars[filePath], 1)]
  IN  InScope(getIntentByIdFrom(file, intentId))

\* getCuratedContext: "" when the intent is not found, the XML block otherwise
getCuratedContext(intentId) ==
  IF getIntentById(intentId) = NotFound THEN "" ELSE "<intent_context>"

(***************************************************************************)
(* Ignore rules (.intentignore) and their queries.                         *)
(***************************************************************************)
IgnoreRules ==
  << [intent |-> Undefined, pattern |-> "node_modules/**", kind |-> "exclude"],
     [intent |-> Undefined, pattern |-> ".git/**", kind |-> "exclude"],
     [intent |-> Undefined, pattern |-> "dist/**", kind |-> "exclude"],
     [intent |-> Undefined, pattern |-> "*.log", kind |-> "exclude"],
     [intent |-> "INT-001", pattern |-> "s/**", kind |-> "allow_destructive"] >>

RECURSIVE GlobMatch(_, _, _, _)
GlobMatch(pat, i, str, j) ==
  IF i > Len(pat) THEN j = Len(str) + 1
  ELSE IF pat[i] = "*" /\ i < Len(pat) /\ pat[i + 1] = "*"
       THEN \E k \in j..(Len(str) + 1) : GlobMatch(pat, i + 2, str, k)
  ELSE IF pat[i] = "*"
       THEN \E k \in j..(Len(str) + 1) :
              /\ \A m \in j..(k - 1) : str[m] # "/"
              /\ GlobMatch(pat, i + 1, str, k)
  ELSE IF pat[i] = "?"
       THEN j <= Len(str) /\ str[j] # "/" /\ GlobMatch(pat, i + 1, str, j + 1)
  ELSE j <= Len(str) /\ str[j] = pat[i] /\ GlobMatch(pat, i + 1, str, j + 1)

isExcluded(target, intentId) ==
  \E k \in DOMAIN IgnoreRules :
    /\ IgnoreRules[k].kind = "exclude"
    /\ IgnoreRules[k].intent \in {Undefined, intentId}
    /\ GlobMatch(Chars[IgnoreRules[k].pattern], 1, Chars[target], 1)

allowsDestructive(intentId) ==
  \E k \in DOMAIN IgnoreRules :
    /\ IgnoreRules[k].kind = "allow_destructive"
    /\ IgnoreRules[k].intent = intentId

(***************************************************************************)
(* Command classification.                                                 *)
(***************************************************************************)
DESTRUCTIVE_PATTERNS ==
  << [pattern |-> <<"r", "m", "\\s+", "-", "r", "f">>, risk |-> "destructive", reason |-> "Force recursive delete", alternative |-> "Use trash or move to backup"],
     [pattern |-> <<"r", "m", "d", "i", "r", "\\s+", "/", "s">>, risk |-> "destructive", reason |-> "Delete directory recursively", alternative |-> "Use trash"],
     [pattern |-> <<"f", "o", "r", "m", "a", "t">>, risk |-> "destructive", reason |-> "Format disk", alternative |-> "Never use in development"],
     [pattern |-> <<"m", "k", "f", "s">>, risk |-> "destructive", reason |-> "Create file system", alternative |-> "Never use in development"],
     [pattern |-> <<"d", "d", "\\s+", "i", "f", "=">>, risk |-> "destructive", reason |-> "Raw disk write", alternative |-> "Never use in development"],
     [pattern |-> <<"g", "i", "t", "\\s+", "p", "u", "s", "h", "\\s+", "-", "-", "f", "o", "r", "c", "e">>, risk |-> "destructive", reason |-> "Force push overwrites history", alternative |-> "Use git push --force-with-lease"],
     [pattern |-> <<"g", "i", "t", "\\s+", "r", "e", "s", "e", "t", "\\s+", "-", "-", "h", "a", "r", "d">>, risk |-> "destructive", reason |-> "Hard reset loses changes", alternative |-> "Use git reset --soft"],
     [pattern |-> <<"g", "i", "t", "\\s+", "c", "l", "e", "a", "n", "\\s+", "-", "f">>, risk |-> "destructive", reason |-> "Force clean untracked files", alternative |-> "Dry run with -n first"],
     [pattern |-> <<"d", "r", "o", "p", "\\s+", "t", "a", "b", "l", "e">>, risk |-> "destructive", reason |-> "Delete entire table", alternative |-> "Use TRUNCATE or backup first"],
     [pattern |-> <<"d", "r", "o", "p", "\\s+", "d", "a", "t", "a", "b", "a", "s", "e">>, risk |-> "destructive", reason |-> "Delete entire database", alternative |-> "Never run in production"],
     [pattern |-> <<"d", "e", "l", "e", "t", "e", "\\s+", "f", "r", "o", "m", "\\s+", "\\w+", "\\s+", "w", "h", "e", "r", "e">>, risk |-> "destructive", reason |-> "Delete without WHERE", alternative |-> "Always include WHERE clause"],
     [pattern |-> <<"c", "h", "m", "o", "d", "\\s+", "7", "7", "7">>, risk |-> "destructive", reason |-> "World-writable permissions", alternative |-> "Use 755 for directories, 644 for files"],
     [pattern |-> <<"c", "h", "o", "w", "n">>, risk |-> "destructive", reason |-> "Change ownership", alternative |-> "Use with caution, verify user/group"],
     [pattern |-> <<"s", "h", "u", "t", "d", "o", "w", "n">>, risk |-> "destructive", reason |-> "Shutdown system", alternative |-> "Never use in development"],
     [pattern |-> <<"r", "e", "b", "o", "o", "t">>, risk |-> "destructive", reason |-> "Reboot system", alternative |-> "Never use in development"],
     [pattern |-> <<"k", "i", "l", "l", "\\s+", "-", "9">>, risk |-> "destructive", reason |-> "Force kill process", alternative |-> "Use kill -15 first"] >>

SAFE_PATTERNS ==
  << [pattern |-> <<"l", "s">>, risk |-> "safe", reason |-> "List directory", alternative |-> Undefined],
     [pattern |-> <<"c", "a", "t">>, risk |-> "safe", reason |-> "Read file", alternative |-> Undefined],
     [pattern |-> <<"h", "e", "a", "d">>, risk |-> "safe", reason |-> "Read file start", alternative |-> Undefined],
     [pattern |-> <<"t", "a", "i", "l">>, risk |-> "safe", reason |-> "Read file end", alternative |-> Undefined],
     [pattern |-> <<"g", "r", "e", "p">>, risk |-> "safe", reason |-> "Search content", alternative |-> Undefined],
     [pattern |-> <<"f", "i", "n", "d">>, risk |-> "safe", reason |-> "Find files", alternative |-> Undefined],
     [pattern |-> <<"w", "h", "i", "c", "h">>, risk |-> "safe", reason |-> "Locate command", alternative |-> Undefined],
     [pattern |-> <<"g", "i", "t", "\\s+", "s", "t", "a", "t", "u", "s">>, risk |-> "safe", reason |-> "Check status", alternative |-> Undefined],
     [pattern |-> <<"g", "i", "t", "\\s+", "l", "o", "g">>, risk |-> "safe", reason |-> "View history", alternative |-> Undefined],
     [pattern |-> <<"g", "i", "t", "\\s+", "d", "i", "f", "f">>, risk |-> "safe", reason |-> "View changes", alternative |-> Undefined],
     [pattern |-> <<"g", "i", "t", "\\s+", "b", "r", "a", "n", "c", "h">>, risk |-> "safe", reason |-> "List branches", alternative |-> Undefined],
     [pattern |-> <<"n", "p", "m", "\\s+", "i", "n", "s", "t", "a", "l", "l">>, risk |-> "destructive", reason |-> "Modifies node_modules", alternative |-> "Use --dry-run first"],
     [pattern |-> <<"p", "n", "p", "m", "\\s+", "a", "d", "d">>, risk |-> "destructive", reason |-> "Modifies dependencies", alternative |-> "Use --dry-run first"],
     [pattern |-> <<"p", "i", "p", "\\s+", "i", "n", "s", "t", "a", "l", "l">>, risk |-> "destructive", reason |-> "Modifies Python packages", alternative |-> "Use in virtualenv"] >>

IsSpace(c) == c = " "
IsWord(c) == c \notin {" ", "-", "/", ".", "=", "*"}

\* pattern.test(command) with the i flag: a match of the pattern at position j
RECURSIVE RegexMatchAt(_, _, _, _)
RegexMatchAt(pat, i, str, j) ==
  IF i > Len(pat) THEN TRUE
  ELSE IF pat[i] = "\\s+"
       THEN \E k \in (j + 1)..(Len(str) + 1) :
              /\ \A m \in j..(k - 1) : IsSpace(str[m])
              /\ RegexMatchAt(pat, i + 1, str, k)
  ELSE IF pat[i] = "\\w+"
       THEN \E k \in (j + 1)..(Len(str) + 1) :
              /\ \A m \in j..(k - 1) : IsWord(str[m])
              /\ RegexMatchAt(pat, i + 1, str, k)
  ELSE /\ j <= Len(str)
       /\ toLowerCase(str[j]) = pat[i]
       /\ RegexMatchAt(pat, i + 1, str, j + 1)

RegexTest(pat, command) ==
  \E j \in 1..(Len0(command) + 1) : RegexMatchAt(pat, 1, Chars[command], j)

FirstMatch(patterns, command) ==
  LET First(hits) == IF hits = {} THEN 0 ELSE CHOOSE k \in hits : \A m \in hits : k <= m
  IN  First({k \in DOMAIN patterns : RegexTest(patterns[k].pattern, command)})

classify(command) ==
  LET Destructive(patterns, d) ==
        [risk |-> "destructive",
         reason |-> patterns[d].reason,
         suggestedAlternative |-> patterns[d].alternative]
      Safe(patterns, s) ==
        IF s # 0
        THEN [risk |-> "safe",
              reason |-> patterns[s].reason,
              suggestedAlternative |-> Undefined]
        ELSE [risk |-> "unknown",
              reason |-> "Command not recognized in safe/destructive patterns",
              suggestedAlternative |-> Undefined]
      Classify(destructive, d) ==
        IF d # 0 THEN Destructive(destructive, d)
        ELSE LET Rest(safe) == Safe(safe, FirstMatch(safe, command))
             IN  Rest(SAFE_PATTERNS)
      Start(destructive) == Classify(destructive, FirstMatch(destructive, command))
  IN  Start(DESTRUCTIVE_PATTERNS)

\* the classification of every command of the model, computed once
Classification == [c \in Commands |-> classify(c)]


(***************************************************************************)
(* Content hashing of the trace layer.                                     *)
(***************************************************************************)
hashContent(content) == sha256(content)

IsWhitespace(c) == c \in {" ", "\t", "\n", "\r"}

\* content.split("\n").map(line => line.trimEnd()).join("\n"), right to left
RECURSIVE TrimLines(_, _, _)
TrimLines(t, i, atLineEnd) ==
  IF i = 0 THEN <<>>
  ELSE IF t[i] = "\n" THEN Append(TrimLines(t, i - 1, TRUE), t[i])
  ELSE IF atLineEnd /\ IsWhitespace(t[i]) THEN TrimLines(t, i - 1, TRUE)
  ELSE Append(TrimLines(t, i - 1, FALSE), t[i])

RECURSIVE Trim(_)
Trim(t) ==
  IF t = <<>> THEN t
  ELSE IF IsWhitespace(t[1]) THEN Trim(Tail(t))
  ELSE IF IsWhitespace(t[Len(t)]) THEN Trim(SubSeq(t, 1, Len(t) - 1))
  ELSE t

normalizeAndHash(content) ==
  LET Normalized(t) == hashContent(FromChars(Trim(TrimLines(t, Len(t), TRUE))))
  IN  Normalized(Chars[content])

(***************************************************************************)
(* Mutation classification of the trace layer.                             *)
(***************************************************************************)
\* the versions of a file that are compared
Sources ==
  {"function f(){ /* TODO: fix */ return 1; }",
   "function f(){ return 1; }",
   "function f(){ /* FIXME */ g(); return 1; }",
   "function f(){ g(); return 1; }",
   "/** @returns 1 */ function f(){ return 1; }"}

\* String.prototype.includes
includes(content, needle) ==
  LET Found(t, n) == \E j \in 1..(Len(t) - Len(n) + 1) : SubSeq(t, j, j + Len(n) - 1) = n
  IN  Found(Chars[content], Chars[needle])

\* content.split("\n").length
LineCount(content) == 1 + Cardinality({j \in DOMAIN Chars[content] : Chars[content][j] = "\n"})

Abs(n) == IF n < 0 THEN -n ELSE n

\* extractStructuralFingerprint of the parsed source: the tree of node types
\* with identifiers, strings, numbers and comments left out
extractStructuralFingerprint(content) ==
  IF includes(content, "g()")
  THEN "program(function_declaration(statement_block(expression_statement(call_expression),return_statement)))"
  ELSE "program(function_declaration(statement_block(return_statement)))"

findStructuralChanges(original, modified) ==
  IF original = modified THEN <<>> ELSE <<"Node type changed">>

Classified(class, confidence, changes) ==
  [class |-> class, confidence |-> confidence, changes |-> changes]

\* ASTComparator.fallbackCompare; confidences are in hundredths
fallbackCompare(original, modified) ==
  IF includes(modified, "*") /\ includes(modified, "@")
  THEN Classified("DOCS_UPDATE", 80, <<"Documentation update">>)
  ELSE IF \/ Abs(LineCount(modified) - LineCount(original)) > 20
          \/ Abs(Len0(modified) - Len0(original)) > 500
  THEN Classified("INTENT_EVOLUTION", 70, <<"Significant change">>)
  ELSE Classified("AST_REFACTOR", 70, <<>>)

\* ASTComparator.compare; parses is whether tree-sitter loads and parses
compare(original, modified, parses) ==
  LET Compared(changes) ==
        IF changes # <<>>
        THEN IF \/ includes(original, "TODO") /\ ~includes(modified, "TODO")
                \/ includes(original, "FIXME") /\ ~includes(modified, "FIXME")
             THEN Classified("BUG_FIX", 90, Append(changes, "Fixed TODO/FIXME items"))
             ELSE Classified("INTENT_EVOLUTION", 90, changes)
        ELSE Classified("AST_REFACTOR", 95, <<>>)
  IN  IF parses
      THEN Compared(findStructuralChanges(extractStructuralFingerprint(original),
                                          extractStructuralFingerprint(modified)))
      ELSE fallbackCompare(original, modified)

\* SpatialHash.classifyMutation: compare never rejects
classifyMutation(originalContent, newContent, parses) ==
  compare(originalContent, newContent, parses)

\* changes.includes(x): x is one of the elements
ArrayIncludes(changes, x) == \E k \in DOMAIN changes : changes[k] = x

\* SpatialHash.fallbackClassification
fallbackClassification(originalContent, newContent) ==
  LET lineDiff == Abs(LineCount(newContent) - LineCount(originalContent))
      sizeDiff == Abs(Len0(newContent) - Len0(originalContent))
      Todo(c) ==
        IF includes(originalContent, "TODO") /\ ~includes(newContent, "TODO")
        THEN [changes |-> Append(c.changes, "Removed TODO comment"), confidence |-> 80]
        ELSE c
      Fixme(c) ==
        IF includes(originalContent, "FIXME") /\ ~includes(newContent, "FIXME")
        THEN [changes |-> Append(c.changes, "Removed FIXME comment"), confidence |-> 80]
        ELSE c
      Loop(c) ==
        IF includes(originalContent, "forEach") /\ includes(newContent, "for(")
        THEN [changes |-> Append(c.changes, "Replaced forEach with for loop"),
              confidence |-> 85]
        ELSE c
      Decide(c) ==
        IF lineDiff > 20 \/ sizeDiff > 500
        THEN Classified("INTENT_EVOLUTION", 85, Append(c.changes, "Significant change"))
        ELSE IF c.changes # <<>>
        THEN Classified(IF ArrayIncludes(c.changes, "Removed TODO") THEN "BUG_FIX"
                        ELSE "AST_REFACTOR",
                        c.confidence, c.changes)
        ELSE Classified("AST_REFACTOR", 60, <<"Minor adjustments">>)
  IN  IF \/ includes(newContent, "*") /\ includes(newContent, "@param")
         \/ includes(newContent, "@returns")
         \/ includes(newContent, "@throws")
      THEN Classified("DOCS_UPDATE", 90, <<"Documentation update">>)
      ELSE Decide(Loop(Fixme(Todo([changes |-> <<>>, confidence |-> 70]))))

(***************************************************************************)
(* State.                                                                  *)
(***************************************************************************)
VARIABLES
  now,                  \* Date.now()
  sessionIntent,        \* the host's session objects: session.intentId
  preHooks,             \* HookRegistry.preHooks: tool name -> hooks
  postHooks,            \* HookRegistry.postHooks: tool name -> hooks
  globalPreHooks,       \* HookRegistry.globalPreHooks
  globalPostHooks,      \* HookRegistry.globalPostHooks
  traceRecorderInstance,\* postHooks.ts: null until initializeTraceRecorder
  fallbackMode,         \* FallbackRegistry.fallbackMode
  primaryFails,         \* whether the primary registry's executePreHooks rejects
  fallbackSince,        \* when fallbackMode was last set
  healthCheck,          \* the last run of the health check: when, and what it found
  disk,                 \* the workspace files: path -> content or Absent
  activeLocks,          \* OptimisticLockManager.activeLocks
  waitingWrites,        \* OptimisticLockManager.waitingWrites
  fileVersions,         \* OptimisticLockManager.fileVersions
  journal,              \* .orchestration/agent_trace.jsonl, one record per line
  claudeMd,             \* .orchestration/CLAUDE.md, one entry per element
  call,                 \* per session: the pipeline call in progress or last finished
  callsStarted,         \* number of executeTool calls so far
  lockOp,               \* the last call a host made on the lock manager, with its result
  evaluation,           \* the last call of a function of the hook utilities, with its result
  sessions,             \* ParallelSessionManager.sessions
  emitted,              \* the events the session manager emitted in its last operation
  intentMap,            \* .orchestration/intent_map.md, one line per element
  mapUpdates            \* per journal line: the updateIntentMap started for it

fallbackVars == <<fallbackMode, primaryFails, fallbackSince, healthCheck>>
registryVars == <<preHooks, postHooks, globalPreHooks, globalPostHooks, traceRecorderInstance,
                  fallbackVars>>
lockVars == <<activeLocks, waitingWrites>>
logVars == <<journal, claudeMd>>
callVars == <<call, callsStarted, lockOp>>
programVars == <<now, sessionIntent, registryVars, disk, lockVars, fileVersions, logVars, callVars>>
mapVars == <<intentMap, mapUpdates>>
utilVars == <<evaluation, sessions, emitted, mapVars>>
vars == <<programVars, utilVars>>

\* the keys the lock manager's maps can carry
PathKeys == LockPaths \cup {normalizePath(p) : p \in LockPaths}

(***************************************************************************)
(* OptimisticLockManager.  A lock state L is the pair of maps the          *)
(* operations change, with the promises they resolved on the way.          *)
(***************************************************************************)
NoLock == [path |-> Undefined, agentId |-> Undefined, acquired |-> 0]

\* Map.get on activeLocks
LockOf(locks, key) ==
  IF \E l \in locks : l.path = key
  THEN CHOOSE l \in locks : l.path = key
  ELSE NoLock

\* Map.set on activeLocks
LockSet(locks, key, agentId, t) ==
  {l \in locks : l.path # key} \cup {[path |-> key, agentId |-> agentId, acquired |-> t]}

\* a queue whose head is taken off without its promise being resolved
processWaitingQueueDropsHead(L, filePath) ==
  LET queue == L.waitingWrites[filePath]
  IN  IF queue = <<>> THEN L
      ELSE [L EXCEPT !.waitingWrites[filePath] = Tail(queue)]

processWaitingQueue(L, filePath) ==
  LET queue == L.waitingWrites[filePath]
  IN  IF queue = <<>> THEN L
      ELSE [L EXCEPT !.waitingWrites[filePath] = Tail(queue),
                     !.resolved = Append(@, [agentId |-> Head(queue), path |-> filePath])]

\* a release that does not ask who holds the lock
releaseLockByAnyone(L, filePath, agentId) ==
  LET Release(normalizedPath) ==
        LET Held(lock) ==
              IF lock # NoLock
              THEN processWaitingQueue(
                     [L EXCEPT !.activeLocks = {l \in @ : l.path # normalizedPath}],
                     normalizedPath)
              ELSE L
        IN  Held(LockOf(L.activeLocks, normalizedPath))
  IN  Release(normalizePath(filePath))

releaseLock(L, filePath, agentId) ==
  LET Release(normalizedPath) ==
        LET Held(lock) ==
              IF lock # NoLock /\ lock.agentId = agentId
              THEN processWaitingQueue(
                     [L EXCEPT !.activeLocks = {l \in @ : l.path # normalizedPath}],
                     normalizedPath)
              ELSE L
        IN  Held(LockOf(L.activeLocks, normalizedPath))
  IN  Release(normalizePath(filePath))

\* a lock its holder can take again
acquireLockReentrant(L, filePath, agentId) ==
  LET Acquire(normalizedPath) ==
        LET Set(L1) ==
              [L |-> [L1 EXCEPT !.activeLocks = LockSet(@, normalizedPath, agentId, now)],
               acquired |-> TRUE]
            Has(lock) ==
              IF lock = NoLock \/ lock.agentId = agentId THEN Set(L)
              ELSE IF now - lock.acquired > StaleLockMs
              THEN Set(releaseLock(L, filePath, lock.agentId))
              ELSE [L |-> L, acquired |-> FALSE]
        IN  Has(LockOf(L.activeLocks, normalizedPath))
  IN  Acquire(normalizePath(filePath))

acquireLock(L, filePath, agentId) ==
  LET Acquire(normalizedPath) ==
        LET Set(L1) ==
              [L |-> [L1 EXCEPT !.activeLocks = LockSet(@, normalizedPath, agentId, now)],
               acquired |-> TRUE]
            Has(lock) ==
              IF lock = NoLock THEN Set(L)
              ELSE IF now - lock.acquired > StaleLockMs
              THEN Set(releaseLock(L, filePath, lock.agentId))
              ELSE [L |-> L, acquired |-> FALSE]
        IN  Has(LockOf(L.activeLocks, normalizedPath))
  IN  Acquire(normalizePath(filePath))

\* a queue that leaves its first waiter waiting and wakes every later caller
\* at once
queueWriteWakesNewest(L, filePath, agentId) ==
  LET Queue(normalizedPath) ==
        LET Pushed(position) ==
              IF position = 0
              THEN [L |-> [L EXCEPT !.waitingWrites[normalizedPath] = Append(@, agentId)],
                    position |-> position, resolved |-> FALSE]
              ELSE [L |-> [L EXCEPT !.resolved = Append(@, [agentId |-> agentId,
                                                            path |-> normalizedPath])],
                    position |-> position, resolved |-> TRUE]
        IN  Pushed(Len(L.waitingWrites[normalizedPath]))
  IN  Queue(normalizePath(filePath))

queueWrite(L, filePath, agentId) ==
  LET Queue(normalizedPath) ==
        LET Settled(position, L2) ==
              [L |-> L2, position |-> position,
               resolved |-> \E k \in DOMAIN L2.resolved :
                              L2.resolved[k] = [agentId |-> agentId, path |-> normalizedPath]]
            Pushed(position, L1) ==
              Settled(position,
                      IF position = 0 THEN processWaitingQueue(L1, normalizedPath) ELSE L1)
        IN  Pushed(Len(L.waitingWrites[normalizedPath]),
                   [L EXCEPT !.waitingWrites[normalizedPath] = Append(@, agentId)])
  IN  Queue(normalizePath(filePath))

\* the hash registerReadVersion stores: a missing file reads as ""
readVersionHash(filePath) ==
  sha256(IF disk[filePath] = Absent THEN "" ELSE disk[filePath])

\* a key that leaves the agent out: every session shares one slot per path
versionKeyPerPath(normalizedPath, agentId) ==
  <<normalizedPath, CHOOSE a \in Sessions : TRUE>>

\* `${normalizedPath}:${agentId}`, the key of fileVersions
versionKey(normalizedPath, agentId) ==
  <<normalizedPath, agentId>>

\* a validateWrite that only asks for some recorded read version
validateWriteNoCompare(filePath, agentId) ==
  LET Validate(readVersion) ==
        IF readVersion = Undefined
        THEN [valid |-> FALSE,
              error |-> "No read version recorded. Must read file before writing."]
        ELSE [valid |-> TRUE, error |-> Undefined]
  IN  Validate(fileVersions[versionKey(normalizePath(filePath), agentId)])

validateWrite(filePath, agentId) ==
  LET Validate(readVersion, currentHash) ==
        IF readVersion = Undefined
        THEN [valid |-> FALSE,
              error |-> "No read version recorded. Must read file before writing."]
        ELSE IF currentHash # readVersion
        THEN [valid |-> FALSE,
              error |-> "STALE_FILE: File has been modified by another agent"]
        ELSE [valid |-> TRUE, error |-> Undefined]
  IN  Validate(fileVersions[versionKey(normalizePath(filePath), agentId)],
               IF disk[filePath] = Absent THEN "" ELSE sha256(disk[filePath]))

\* the lock state of the current state, nothing resolved yet
LockState == [activeLocks |-> activeLocks, waitingWrites |-> waitingWrites, resolved |-> <<>>]

(***************************************************************************)
(* Pre-hooks.  A hook run works on w = [ctx, L, wait, log]: the            *)
(* HookContext, the lock state, the approval port the hook is suspended on *)
(* ("throw" once it has thrown), and the hook calls made so far.           *)
(***************************************************************************)
NoError == [type |-> Undefined, message |-> Undefined,
            suggestion |-> Undefined, scopes |-> <<>>, recoverable |-> Undefined]

Error(type, message, suggestion) ==
  [type |-> type, message |-> message, suggestion |-> suggestion, scopes |-> <<>>,
   recoverable |-> Undefined]

Block(w, error, llmError) ==
  [w EXCEPT !.ctx.blocked = TRUE, !.ctx.error = error, !.ctx.llmError = llmError]

\* the hook throws: reading a property of args when args is undefined is a
\* TypeError
Throw(w) == [w EXCEPT !.wait = "throw"]

\* a gatekeeper that hands back a fresh, unblocked context when an intent
\* is selected
intentGatekeeperClearsBlocked(w) ==
  IF w.ctx.toolName = "select_active_intent" THEN w
  ELSE IF w.ctx.intentId = Undefined
  THEN Block(w, Error("INTENT_REQUIRED", "You must call select_active_intent first",
                      "Analyze the user request and call select_active_intent with the appropriate intent_id"),
             "INTENT_REQUIRED")
  ELSE [w EXCEPT !.ctx.blocked = FALSE]

intentGatekeeper(w) ==
  IF w.ctx.toolName = "select_active_intent" THEN w
  ELSE IF w.ctx.intentId = Undefined
  THEN Block(w, Error("INTENT_REQUIRED", "You must call select_active_intent first",
                      "Analyze the user request and call select_active_intent with the appropriate intent_id"),
             "INTENT_REQUIRED")
  ELSE w

\* a classifier hook that asks for approval on destructive commands only
commandClassifierUnknownPasses(w) ==
  IF w.ctx.toolName # "execute_command" THEN w
  ELSE IF w.ctx.args = Undefined THEN Throw(w)
  ELSE IF isExcluded(w.ctx.command, w.ctx.intentId)
  THEN Block(w, Error("COMMAND_EXCLUDED", "Command excluded by .intentignore",
                      "Remove from .intentignore or use different approach"),
             w.ctx.llmError)
  ELSE IF Classification[w.ctx.command].risk # "destructive" THEN w
  ELSE IF w.ctx.intentId # Undefined /\ allowsDestructive(w.ctx.intentId) THEN w
  ELSE [w EXCEPT !.wait = "confirmDestructiveCommand"]

commandClassifier(w) ==
  IF w.ctx.toolName # "execute_command" THEN w
  ELSE IF w.ctx.args = Undefined THEN Throw(w)
  ELSE IF isExcluded(w.ctx.command, w.ctx.intentId)
  THEN Block(w, Error("COMMAND_EXCLUDED", "Command excluded by .intentignore",
                      "Remove from .intentignore or use different approach"),
             w.ctx.llmError)
  ELSE IF Classification[w.ctx.command].risk = "safe" THEN w
  ELSE IF w.ctx.intentId # Undefined /\ allowsDestructive(w.ctx.intentId) THEN w
  ELSE [w EXCEPT !.wait = "confirmDestructiveCommand"]

\* commandClassifier from the answer of confirmDestructiveCommand on
commandClassifierResume(w, approval) ==
  LET Answered(w1) ==
        [w1 EXCEPT !.wait = "none",
                   !.ctx.userFeedback = IF approval.feedback # Undefined
                                        THEN approval.feedback ELSE @]
      Rejected(classification) ==
        Block(w, Error("DESTRUCTIVE_COMMAND", "Destructive command blocked",
                       IF classification.suggestedAlternative # Undefined
                       THEN classification.suggestedAlternative
                       ELSE "Request explicit user approval"),
              "DESTRUCTIVE_COMMAND")
  IN  Answered(IF ~approval.approved THEN Rejected(Classification[w.ctx.command]) ELSE w)

\* an enforcer that consults the ignore rules only
scopeEnforcerIgnoreRulesOnly(w) ==
  IF w.ctx.toolName # "write_to_file" \/ w.ctx.intentId = Undefined THEN w
  ELSE IF w.ctx.args = Undefined THEN Throw(w)
  ELSE IF isExcluded(w.ctx.path, w.ctx.intentId)
  THEN Block(w, Error("FILE_EXCLUDED", "File excluded by .intentignore",
                      "Remove from .intentignore or choose different file"),
             w.ctx.llmError)
  ELSE w

scopeEnforcer(w) ==
  IF w.ctx.toolName # "write_to_file" \/ w.ctx.intentId = Undefined THEN w
  ELSE IF w.ctx.args = Undefined THEN Throw(w)
  ELSE IF isExcluded(w.ctx.path, w.ctx.intentId)
  THEN Block(w, Error("FILE_EXCLUDED", "File excluded by .intentignore",
                      "Remove from .intentignore or choose different file"),
             w.ctx.llmError)
  ELSE IF ~validateIntentScope(w.ctx.intentId, w.ctx.path)
  THEN [w EXCEPT !.wait = "confirmScopeViolation"]
  ELSE w

\* scopeEnforcer from the answer of confirmScopeViolation on
scopeEnforcerResume(w, approval) ==
  LET allowedScopes == getIntentById(w.ctx.intentId).owned_scope
      w1 == IF ~approval.approved
            THEN Block(w, [type |-> "SCOPE_VIOLATION",
                           message |-> "Intent cannot modify file",
                           suggestion |-> "Request scope expansion or use allowed scopes: ",
                           scopes |-> allowedScopes,
                           recoverable |-> Undefined],
                       "SCOPE_VIOLATION")
            ELSE w
  IN  [w1 EXCEPT !.wait = "none"]

\* a detector that validates the read version but never takes the lock
staleFileDetectorNoLock(w) ==
  IF w.ctx.toolName # "write_to_file" THEN w
  ELSE IF w.ctx.args = Undefined THEN Throw(w)
  ELSE IF w.ctx.intentId = Undefined THEN w
  ELSE LET Validated(validation) ==
             IF ~validation.valid
             THEN Block(w, Error("STALE_FILE", validation.error,
                                 "Re-read the file and merge your changes"),
                        w.ctx.llmError)
             ELSE w
       IN  Validated(validateWrite(w.ctx.path, w.ctx.conversationId))

staleFileDetector(w) ==
  IF w.ctx.toolName # "write_to_file" THEN w
  ELSE IF w.ctx.args = Undefined THEN Throw(w)
  ELSE IF w.ctx.intentId = Undefined THEN w
  ELSE LET filePath == w.ctx.path
           agentId == w.ctx.conversationId
           Queued(queueResult) ==
             IF ~queueResult.resolved
             THEN [w EXCEPT !.L = queueResult.L, !.wait = "queueWrite"]
             ELSE [Block(w, Error("FILE_LOCKED",
                                  "File " \o filePath
                                    \o " is currently being modified by another agent",
                                  "Your write has been queued (position "
                                    \o ToString(queueResult.position) \o "). Please wait."),
                         w.ctx.llmError)
                     EXCEPT !.L = queueResult.L]
           Validated(lockAcquired, validation) ==
             IF ~validation.valid
             THEN [Block(w, Error("STALE_FILE", validation.error,
                                  "Re-read the file and merge your changes"),
                         w.ctx.llmError)
                     EXCEPT !.L = releaseLock(lockAcquired.L, filePath, agentId)]
             ELSE [w EXCEPT !.L = lockAcquired.L]
           Locked(lockAcquired) ==
             IF ~lockAcquired.acquired
             THEN Queued(queueWrite(lockAcquired.L, filePath, agentId))
             ELSE Validated(lockAcquired, validateWrite(filePath, agentId))
       IN  Locked(acquireLock(w.L, filePath, agentId))

\* the hook of the fail-safe test: async () => { throw new Error("Hook error") }
errorHook(w) == Throw(w)

\* the call of one registered pre-hook
RunHook(hook, w) ==
  CASE hook = "intentGatekeeper" -> intentGatekeeper(w)
    [] hook = "commandClassifier" -> commandClassifier(w)
    [] hook = "scopeEnforcer" -> scopeEnforcer(w)
    [] hook = "staleFileDetector" -> staleFileDetector(w)
    [] hook = "errorHook" -> errorHook(w)

\* the rest of a pre-hook that was suspended on the approval port
ResumeHook(hook, w, approval) ==
  CASE hook = "commandClassifier" -> commandClassifierResume(w, approval)
    [] hook = "scopeEnforcer" -> scopeEnforcerResume(w, approval)

(***************************************************************************)
(* HookRegistry.executePreHooks: the global loop, then the tool loop; each *)
(* loop breaks once a hook has returned a blocked context.  A run stops    *)
(* where a hook suspends and is taken up again from there.                 *)
(***************************************************************************)
RECURSIVE RunLoopStopsOnThrow(_, _, _)
RECURSIVE RunLoop(_, _, _)
\* a loop that gives up at the first hook that throws
RunLoopStopsOnThrow(hooks, idx, w) ==
  IF idx > Len(hooks) THEN [w |-> w, idx |-> idx]
  ELSE LET Called(r, threw) ==
             [r EXCEPT !.wait = IF threw THEN "none" ELSE @,
                       !.log = Append(@, [hook |-> hooks[idx], ctx |-> w.ctx,
                                          threw |-> threw,
                                          rest |-> IF threw
                                                   THEN SubSeq(hooks, idx + 1, Len(hooks))
                                                   ELSE <<>>])]
           Returned(r) ==
             IF r.wait # "none" \/ r.ctx.blocked THEN [w |-> r, idx |-> idx]
             ELSE RunLoopStopsOnThrow(hooks, idx + 1, r)
           Tried(r) ==
             IF r.wait = "throw" THEN [w |-> Called(r, TRUE), idx |-> idx]
             ELSE Returned(Called(r, FALSE))
       IN  Tried(RunHook(hooks[idx], w))

\* a log entry is the hook called, the context handed to it, whether it threw
\* and, if it did, the hooks of the loop that were still to come
RunLoop(hooks, idx, w) ==
  IF idx > Len(hooks) THEN [w |-> w, idx |-> idx]
  ELSE LET Called(r, threw) ==
             [r EXCEPT !.wait = IF threw THEN "none" ELSE @,
                       !.log = Append(@, [hook |-> hooks[idx], ctx |-> w.ctx,
                                          threw |-> threw,
                                          rest |-> IF threw
                                                   THEN SubSeq(hooks, idx + 1, Len(hooks))
                                                   ELSE <<>>])]
           Returned(r) ==
             IF r.wait # "none" \/ r.ctx.blocked THEN [w |-> r, idx |-> idx]
             ELSE RunLoop(hooks, idx + 1, r)
           \* the catch around one hook: on to the next hook
           Tried(r) ==
             IF r.wait = "throw" THEN RunLoop(hooks, idx + 1, Called(r, TRUE))
             ELSE Returned(Called(r, FALSE))
       IN  Tried(RunHook(hooks[idx], w))

\* the tool loop, entered after the global loop whatever its outcome
RunToolLoop(toolName, g) ==
  IF g.w.wait # "none" THEN [w |-> g.w, idx |-> g.idx, phase |-> "global"]
  ELSE LET Done(t) == [w |-> t.w, idx |-> t.idx, phase |-> "tool"]
       IN  Done(RunLoop(preHooks[toolName], 1, g.w))

executePreHooks(toolName, w) ==
  RunToolLoop(toolName, RunLoop(globalPreHooks, 1, w))

\* executePreHooks from the answer of the approval port on
resumePreHooks(toolName, phase, idx, w, approval) ==
  LET Resumed(hooks) ==
        LET Rest(r) ==
              IF r.ctx.blocked THEN [w |-> r, idx |-> idx]
              ELSE RunLoop(hooks, idx + 1, r)
            Finish(rest) ==
              IF phase = "global" THEN RunToolLoop(toolName, rest)
              ELSE [w |-> rest.w, idx |-> rest.idx, phase |-> "tool"]
        IN  Finish(Rest(ResumeHook(hooks[idx], w, approval)))
  IN  Resumed(IF phase = "global" THEN globalPreHooks ELSE preHooks[toolName])

(***************************************************************************)
(* Post-hooks.  Each works on the two logs, logs = [journal, claudeMd].    *)
(***************************************************************************)
Truthy(success) == success = "true"

\* a traceRecorder that records whatever the tool returned
traceRecorderAnyResult(ctx, result, logs) ==
  IF ctx.toolName # "write_to_file" THEN logs
  ELSE IF ctx.args = Undefined THEN logs
  ELSE [logs EXCEPT !.journal = Append(@,
          [relative_path |-> IF ctx.path # Undefined THEN ctx.path ELSE "unknown",
           content_hash |-> hashContent(IF ctx.content # Undefined THEN ctx.content ELSE ""),
           related |-> <<[type |-> "specification",
                          value |-> IF ctx.intentId # Undefined THEN ctx.intentId
                                    ELSE "unknown"]>>,
           session_id |-> Undefined])]

traceRecorder(ctx, result, logs) ==
  IF ctx.toolName # "write_to_file" \/ ~Truthy(result.success) THEN logs
  ELSE IF ctx.args = Undefined THEN logs
  ELSE [logs EXCEPT !.journal = Append(@,
          [relative_path |-> IF ctx.path # Undefined THEN ctx.path ELSE "unknown",
           content_hash |-> hashContent(IF ctx.content # Undefined THEN ctx.content ELSE ""),
           related |-> <<[type |-> "specification",
                          value |-> IF ctx.intentId # Undefined THEN ctx.intentId
                                    ELSE "unknown"]>>,
           session_id |-> Undefined])]

enhancedTraceRecorder(ctx, result, logs) ==
  IF ctx.toolName # "write_to_file" \/ ~Truthy(result.success) \/ ~traceRecorderInstance
  THEN logs
  ELSE IF ctx.args = Undefined THEN logs
  ELSE IF ctx.intentId = Undefined THEN logs
  ELSE LET Record(contentHash) ==
             [logs EXCEPT !.journal = Append(@,
                [relative_path |-> ctx.path,
                 content_hash |-> contentHash,
                 related |-> <<[type |-> "specification", value |-> ctx.intentId],
                               [type |-> "content_hash", value |-> "sha256:" \o contentHash]>>,
                 session_id |-> ctx.conversationId])]
       IN  Record(normalizeAndHash(IF ctx.content # Undefined THEN ctx.content ELSE ""))

lessonRecorder(ctx, result, logs) ==
  IF result.success # "false" THEN logs
  ELSE [logs EXCEPT !.claudeMd = Append(@,
          [entry |-> "Lesson Learned",
           intent |-> IF ctx.intentId # Undefined THEN ctx.intentId ELSE "none",
           tool |-> ctx.toolName,
           error |-> result.error.message])]

recoveryLogger(ctx, result, logs) ==
  IF result.success # "false" THEN logs
  ELSE [logs EXCEPT !.claudeMd = Append(@,
          [entry |-> "Recovery Learning",
           intent |-> IF ctx.intentId # Undefined THEN ctx.intentId ELSE "none",
           tool |-> ctx.toolName,
           error |-> IF result.error.type # Undefined THEN result.error.type ELSE "Unknown"])]

RunPostHook(hook, ctx, result, logs) ==
  CASE hook = "traceRecorder" -> traceRecorder(ctx, result, logs)
    [] hook = "enhancedTraceRecorder" -> enhancedTraceRecorder(ctx, result, logs)
    [] hook = "lessonRecorder" -> lessonRecorder(ctx, result, logs)
    [] hook = "recoveryLogger" -> recoveryLogger(ctx, result, logs)

RECURSIVE RunPostHooks(_, _, _, _)
RunPostHooks(hooks, ctx, result, logs) ==
  IF hooks = <<>> THEN logs
  ELSE RunPostHooks(Tail(hooks), ctx, result, RunPostHook(Head(hooks), ctx, result, logs))

\* the orders in which the appends of concurrently started hooks can land
RECURSIVE Orders(_)
Orders(hooks) ==
  IF hooks = <<>> THEN {<<>>}
  ELSE UNION {{<<hooks[i]>> \o rest :
                 rest \in Orders([j \in 1..(Len(hooks) - 1) |->
                                    IF j < i THEN hooks[j] ELSE hooks[j + 1]])} :
              i \in DOMAIN hooks}

\* HookRegistry.executePostHooks: the tool's hooks and the global ones are all
\* started at once and none is awaited
executePostHooks(toolName, ctx, result, logs) ==
  {RunPostHooks(order, ctx, result, logs) :
     order \in Orders(postHooks[toolName] \o globalPostHooks)}

\* TraceRecorder.findByContentHash over the journal: the lines it returns
findByContentHash(contentHash) ==
  {i \in DOMAIN journal : journal[i].content_hash = contentHash}

(***************************************************************************)
(* MiddlewarePipeline.executeTool and the wrapped tools.                   *)
(***************************************************************************)
NoResult == [success |-> Undefined, status |-> Undefined, error |-> NoError,
             llmError |-> Undefined]

IdleCtx == [toolName |-> Undefined, args |-> Undefined, path |-> Undefined, content |-> Undefined,
            command |-> Undefined, intent_id |-> Undefined, intentId |-> Undefined,
            conversationId |-> Undefined, blocked |-> FALSE, error |-> NoError,
            llmError |-> Undefined, userFeedback |-> Undefined]

NoEntry == [lockHolder |-> Undefined, fresh |-> FALSE]

\* what next() gave: a result, or an exception
NoNext == [threw |-> FALSE, value |-> NoResult]

IdleCall == [pc |-> "idle", ctx |-> IdleCtx, phase |-> "tool", idx |-> 0,
             wait |-> "none", answer |-> Undefined, invoked |-> FALSE,
             result |-> NoResult, traces |-> {}, entry |-> NoEntry,
             hookLog |-> <<>>, next |-> NoNext]

\* the arguments a tool reads; the others are undefined.  args tells an
\* object from undefined
ArgsOf(toolName) ==
  CASE toolName = "write_to_file" ->
         {[args |-> "object", path |-> p, content |-> c, command |-> Undefined,
           intent_id |-> Undefined] :
            p \in Paths, c \in WriteContents}
    [] toolName = "execute_command" ->
         {[args |-> "object", path |-> Undefined, content |-> Undefined, command |-> c,
           intent_id |-> Undefined] :
            c \in Commands}
    [] toolName = "select_active_intent" ->
         {[args |-> "object", path |-> Undefined, content |-> Undefined,
           command |-> Undefined, intent_id |-> i] :
            i \in IntentIds}
    [] OTHER ->
         {[args |-> "object", path |-> Undefined, content |-> Undefined,
           command |-> Undefined, intent_id |-> Undefined]}

\* executeTool called with args undefined
NoArgs == [args |-> Undefined, path |-> Undefined, content |-> Undefined,
           command |-> Undefined, intent_id |-> Undefined]

\* an executeTool that goes on to next() whatever the pre-hooks left
AfterPreHooksIgnoringBlocked(c, r) ==
  IF r.w.wait # "none"
  THEN [c EXCEPT !.pc = r.w.wait, !.ctx = r.w.ctx, !.phase = r.phase, !.idx = r.idx,
                 !.wait = r.w.wait]
  ELSE [c EXCEPT !.pc = "next", !.ctx = r.w.ctx, !.phase = r.phase, !.idx = r.idx,
                 !.wait = "none", !.invoked = TRUE]

\* executeTool after the pre-hook phase: the blocked result, or next()
AfterPreHooks(c, r) ==
  IF r.w.wait # "none"
  THEN [c EXCEPT !.pc = r.w.wait, !.ctx = r.w.ctx, !.phase = r.phase, !.idx = r.idx,
                 !.wait = r.w.wait]
  ELSE IF r.w.ctx.blocked
  THEN [c EXCEPT !.pc = "done", !.ctx = r.w.ctx, !.phase = r.phase, !.idx = r.idx,
                 !.wait = "none",
                 !.result = [success |-> "false", status |-> Undefined,
                             error |-> r.w.ctx.error, llmError |-> r.w.ctx.llmError]]
  ELSE [c EXCEPT !.pc = "next", !.ctx = r.w.ctx, !.phase = r.phase, !.idx = r.idx,
                 !.wait = "none", !.invoked = TRUE]

\* who holds a lock on the path that acquireLock would respect at this instant
LiveHolder(filePath) ==
  LET Holder(lock) ==
        IF lock # NoLock /\ now - lock.acquired > StaleLockMs THEN "stale" ELSE lock.agentId
  IN  Holder(LockOf(activeLocks, normalizePath(filePath)))

\* what a run of the pre-hooks finds: the live lock holder of the path, and
\* whether the session's read version is the hash of the file as it is
EntryOf(s, toolName, filePath) ==
  IF toolName = "write_to_file" /\ filePath # Undefined
  THEN [lockHolder |-> LiveHolder(filePath),
        fresh |-> fileVersions[versionKey(normalizePath(filePath), s)]
                    = readVersionHash(filePath)]
  ELSE NoEntry

\* a session starts executeTool: the context is built and the pre-hooks run up
\* to the first suspension
ExecuteTool(s, toolName, args) ==
  /\ call[s].pc \in {"idle", "done"}
  /\ LET ctx == [IdleCtx EXCEPT !.toolName = toolName, !.args = args.args,
                                !.path = args.path,
                                !.content = args.content, !.command = args.command,
                                !.intent_id = args.intent_id,
                                !.intentId = sessionIntent[s],
                                !.conversationId = s]
         Ran(r) ==
           /\ call' = [call EXCEPT ![s] =
                         [AfterPreHooks(
                            [IdleCall EXCEPT !.entry = EntryOf(s, toolName, args.path)],
                            r)
                            EXCEPT !.hookLog = r.w.log]]
           /\ activeLocks' = r.w.L.activeLocks
           /\ waitingWrites' = r.w.L.waitingWrites
     IN  Ran(executePreHooks(toolName,
                             [ctx |-> ctx, L |-> LockState, wait |-> "none", log |-> <<>>]))
  /\ callsStarted' = callsStarted + 1
  /\ UNCHANGED <<now, sessionIntent, utilVars, registryVars, disk, fileVersions, logVars, lockOp>>

\* the session objects the host hands to executeTool: A works on INT-001, B on
\* INT-001, on the read-only INT-002, or has not selected an intent
SessionIntents ==
  {[s \in Sessions |-> IF s = "A" THEN "INT-001" ELSE i] :
     i \in {"INT-001", "INT-002", Undefined}}

Approvals ==
  {[approved |-> TRUE, feedback |-> Undefined],
   [approved |-> FALSE, feedback |-> Undefined]}

\* the user answers the modal a pre-hook is suspended on
ApprovalAnswer(s, approval) ==
  /\ call[s].pc \in {"confirmDestructiveCommand", "confirmScopeViolation"}
  /\ LET Resumed(c, r) ==
           /\ call' = [call EXCEPT ![s] =
                         [AfterPreHooks(
                            [c EXCEPT !.answer = IF approval.approved THEN "approved"
                                                 ELSE "rejected",
                                      !.entry = EntryOf(s, c.ctx.toolName, c.ctx.path)],
                            r)
                            EXCEPT !.hookLog = r.w.log]]
           /\ activeLocks' = r.w.L.activeLocks
           /\ waitingWrites' = r.w.L.waitingWrites
     IN  Resumed(call[s],
                 resumePreHooks(call[s].ctx.toolName, call[s].phase, call[s].idx,
                                [ctx |-> call[s].ctx, L |-> LockState, wait |-> call[s].wait,
                                 log |-> call[s].hookLog],
                                approval))
  /\ UNCHANGED <<now, sessionIntent, utilVars, registryVars, disk, fileVersions, logVars, callsStarted,
                 lockOp>>

\* SelectActiveIntentToolImpl.execute
selectActiveIntentExecute(intent_id) ==
  IF getCuratedContext(intent_id) = ""
  THEN [success |-> Undefined, status |-> "error", error |-> NoError, llmError |-> Undefined]
  ELSE [success |-> Undefined, status |-> "success", error |-> NoError, llmError |-> Undefined]

\* what next() can give back: the tool's result, or "throw"
ToolOutcomes(ctx) ==
  IF ctx.toolName = "select_active_intent"
  THEN {selectActiveIntentExecute(ctx.intent_id)}
  ELSE {[success |-> "true", status |-> Undefined, error |-> NoError, llmError |-> Undefined],
        [success |-> "false", status |-> Undefined,
         error |-> Error("TOOL_ERROR", "tool failed", Undefined), llmError |-> Undefined]}

HookErrorResult ==
  [success |-> "false", status |-> Undefined,
   error |-> [Error("HOOK_ERROR", "Internal hook system error", Undefined)
               EXCEPT !.recoverable = "true"],
   llmError |-> "HOOK_ERROR"]

\* next() resolves: the tool's effect, then the post-hooks are fired and the
\* result is returned
NextReturns(s) ==
  /\ call[s].pc = "next"
  /\ \E result \in ToolOutcomes(call[s].ctx) :
       \E logs \in executePostHooks(call[s].ctx.toolName, call[s].ctx, result,
                                    [journal |-> journal, claudeMd |-> claudeMd]) :
         /\ disk' = IF /\ call[s].ctx.toolName = "write_to_file"
                       /\ call[s].ctx.path # Undefined
                       /\ Truthy(result.success)
                    THEN [disk EXCEPT ![call[s].ctx.path] = call[s].ctx.content]
                    ELSE disk
         /\ journal' = logs.journal
         /\ claudeMd' = logs.claudeMd
         /\ call' = [call EXCEPT ![s].pc = "done", ![s].result = result,
                                 ![s].next = [threw |-> FALSE, value |-> result],
                                 ![s].traces = (Len(journal) + 1)..Len(logs.journal)]
  /\ UNCHANGED <<now, sessionIntent, utilVars, registryVars, lockVars, fileVersions, callsStarted, lockOp>>

\* an executeTool without the catch block: the exception reaches the caller
NextThrowsUncaught(s) ==
  /\ call[s].pc = "next"
  /\ call[s].ctx.toolName # "select_active_intent"
  /\ call' = [call EXCEPT ![s].pc = "done",
                          ![s].next = [threw |-> TRUE, value |-> NoResult]]
  /\ UNCHANGED <<now, sessionIntent, utilVars, registryVars, disk, lockVars, fileVersions, logVars,
                 callsStarted, lockOp>>

\* next() rejects: the catch block of executeTool
NextThrows(s) ==
  /\ call[s].pc = "next"
  /\ call[s].ctx.toolName # "select_active_intent"
  /\ call' = [call EXCEPT ![s].pc = "done", ![s].result = HookErrorResult,
                          ![s].next = [threw |-> TRUE, value |-> NoResult]]
  /\ UNCHANGED <<now, sessionIntent, utilVars, registryVars, disk, lockVars, fileVersions, logVars,
                 callsStarted, lockOp>>

(***************************************************************************)
(* The lock manager's own operations, the clock and the bootstrap.         *)
(***************************************************************************)
\* a session reads a file and registers the version it saw
RegisterReadVersion(s, filePath) ==
  /\ call[s].pc \in {"idle", "done"}
  /\ fileVersions' = [fileVersions EXCEPT ![versionKey(normalizePath(filePath), s)] =
                        readVersionHash(filePath)]
  /\ fileVersions' # fileVersions
  /\ UNCHANGED <<now, sessionIntent, utilVars, registryVars, disk, lockVars, logVars, callVars>>

NoLockOp == [op |-> Undefined, path |-> Undefined, agentId |-> Undefined,
             result |-> Undefined, incumbent |-> NoLock]

\* a host calls acquireLock, releaseLock or queueWrite on the singleton; the
\* call is noted with its result and the lock it found on the path
AcquireLock(s, filePath) ==
  LET Called(r) ==
        /\ activeLocks' = r.L.activeLocks
        /\ waitingWrites' = r.L.waitingWrites
        /\ lockOp' = [op |-> "acquireLock", path |-> filePath, agentId |-> s,
                      result |-> IF r.acquired THEN "true" ELSE "false",
                      incumbent |-> LockOf(activeLocks, normalizePath(filePath))]
        /\ UNCHANGED <<now, sessionIntent, utilVars, registryVars, disk, fileVersions, logVars, call,
                       callsStarted>>
  IN  Called(acquireLock(LockState, filePath, s))

ReleaseLock(s, filePath) ==
  LET Called(L) ==
        /\ activeLocks' = L.activeLocks
        /\ waitingWrites' = L.waitingWrites
        /\ lockOp' = [op |-> "releaseLock", path |-> filePath, agentId |-> s,
                      result |-> Undefined,
                      incumbent |-> LockOf(activeLocks, normalizePath(filePath))]
        /\ UNCHANGED <<now, sessionIntent, utilVars, registryVars, disk, fileVersions, logVars, call,
                       callsStarted>>
  IN  Called(releaseLock(LockState, filePath, s))

QueueWrite(s, filePath) ==
  LET Called(r) ==
        /\ activeLocks' = r.L.activeLocks
        /\ waitingWrites' = r.L.waitingWrites
        /\ lockOp' = [op |-> "queueWrite", path |-> filePath, agentId |-> s,
                      result |-> IF r.resolved THEN "resolved" ELSE "pending",
                      incumbent |-> LockOf(activeLocks, normalizePath(filePath))]
        /\ UNCHANGED <<now, sessionIntent, utilVars, registryVars, disk, fileVersions, logVars, call,
                       callsStarted>>
  IN  Called(queueWrite(LockState, filePath, s))

\* a reaper that uses the 30 s of acquireLock as its timeout
CleanupIntervalStaleAge ==
  LET RECURSIVE Reap(_, _)
      Reap(L, todo) ==
        IF todo = {} THEN L
        ELSE LET Drop(l) ==
                   Reap(processWaitingQueue(
                          [L EXCEPT !.activeLocks = {x \in @ : x.path # l.path}], l.path),
                        todo \ {l})
             IN  Drop(CHOOSE x \in todo : TRUE)
      Reaped(L2) ==
        /\ activeLocks' = L2.activeLocks
        /\ waitingWrites' = L2.waitingWrites
      Run(staleLocks) ==
        /\ staleLocks # {}
        /\ Reaped(Reap(LockState, staleLocks))
  IN  /\ Run({l \in activeLocks : now - l.acquired > StaleLockMs})
      /\ UNCHANGED <<now, sessionIntent, utilVars, registryVars, disk, fileVersions, logVars, callVars>>

\* one run of the setInterval callback of startCleanupInterval
CleanupInterval ==
  LET RECURSIVE Reap(_, _)
      Reap(L, todo) ==
        IF todo = {} THEN L
        ELSE LET Drop(l) ==
                   Reap(processWaitingQueue(
                          [L EXCEPT !.activeLocks = {x \in @ : x.path # l.path}], l.path),
                        todo \ {l})
             IN  Drop(CHOOSE x \in todo : TRUE)
      Reaped(L2) ==
        /\ activeLocks' = L2.activeLocks
        /\ waitingWrites' = L2.waitingWrites
      Run(staleLocks) ==
        /\ staleLocks # {}
        /\ Reaped(Reap(LockState, staleLocks))
  IN  /\ Run({l \in activeLocks : now - l.acquired > ReapLockMs})
      /\ UNCHANGED <<now, sessionIntent, utilVars, registryVars, disk, fileVersions, logVars, callVars>>

Tick ==
  /\ now + TickMs <= MaxTime
  /\ activeLocks # {}
  /\ now' = now + TickMs
  /\ UNCHANGED <<sessionIntent, utilVars, registryVars, disk, lockVars, fileVersions, logVars, callVars>>

\* HookRegistry.registerPreTool and registerGlobalPre
registerPreTool(toolName, hook) ==
  /\ preHooks' = [preHooks EXCEPT ![toolName] = Append(@, hook)]
  /\ UNCHANGED <<now, sessionIntent, utilVars, postHooks, globalPreHooks, globalPostHooks,
                 traceRecorderInstance, fallbackVars, disk, lockVars, fileVersions, logVars,
                 callVars>>

registerGlobalPre(hook) ==
  /\ globalPreHooks' = Append(globalPreHooks, hook)
  /\ UNCHANGED <<now, sessionIntent, utilVars, preHooks, postHooks, globalPostHooks,
                 traceRecorderInstance, fallbackVars, disk, lockVars, fileVersions, logVars,
                 callVars>>

\* the registrations of initializeHooks (Phase 2)
initializeHooks_preHooks ==
  [t \in Tools |->
     CASE t = "execute_command" -> <<"commandClassifier", "intentGatekeeper">>
       [] t = "write_to_file" -> <<"intentGatekeeper", "scopeEnforcer", "staleFileDetector">>
       [] t = "apply_diff" -> <<"intentGatekeeper", "staleFileDetector">>
       [] t = "search_and_replace" -> <<"intentGatekeeper">>
       [] OTHER -> <<>>]

initializeHooks_postHooks ==
  [t \in Tools |->
     CASE t = "write_to_file" -> <<"traceRecorder">>
       [] t = "apply_diff" -> <<"traceRecorder">>
       [] OTHER -> <<>>]

\* initializePhases34 is called
initializePhases34 ==
  /\ ~traceRecorderInstance
  /\ traceRecorderInstance' = TRUE
  /\ postHooks' = [postHooks EXCEPT !["write_to_file"] = Append(@, "enhancedTraceRecorder")]
  /\ preHooks' = [preHooks EXCEPT !["write_to_file"] = Append(@, "staleFileDetector")]
  /\ UNCHANGED <<now, sessionIntent, utilVars, globalPreHooks, globalPostHooks, fallbackVars, disk,
                 lockVars, fileVersions, logVars, callVars>>

(***************************************************************************)
(* FallbackRegistry, used by a host in the place of hookRegistry.          *)
(***************************************************************************)
NoHealthCheck == [at |-> 0, found |-> Undefined]

\* the context executePreHooks returns in fallback mode
FallbackContext(context) ==
  [context EXCEPT !.blocked = FALSE,
                  !.userFeedback = "Hooks temporarily disabled due to error",
                  !.error = NoError]

\* FallbackRegistry.executePreHooks at the head of a call: the primary
\* registry's pre-hooks, or, in fallback mode or when the primary rejects, the
\* context as it came, unblocked
FallbackExecutePreHooks(s, toolName, args) ==
  \/ /\ ~fallbackMode
     /\ ~primaryFails
     /\ ExecuteTool(s, toolName, args)
  \/ /\ fallbackMode \/ primaryFails
     /\ call[s].pc \in {"idle", "done"}
     /\ fallbackMode' = TRUE
     /\ fallbackSince' = IF fallbackMode THEN fallbackSince ELSE now
     /\ call' = [call EXCEPT ![s] =
                   [IdleCall EXCEPT
                      !.pc = "next",
                      !.ctx = FallbackContext(
                                [IdleCtx EXCEPT !.toolName = toolName, !.args = args.args,
                                                !.path = args.path,
                                                !.content = args.content,
                                                !.command = args.command,
                                                !.intent_id = args.intent_id,
                                                !.intentId = sessionIntent[s],
                                                !.conversationId = s]),
                      !.invoked = TRUE,
                      !.entry = EntryOf(s, toolName, args.path)]]
     /\ callsStarted' = callsStarted + 1
     /\ UNCHANGED <<now, sessionIntent, utilVars, preHooks, postHooks, globalPreHooks, globalPostHooks,
                    traceRecorderInstance, primaryFails, healthCheck, disk, lockVars,
                    fileVersions, logVars, lockOp>>

\* a FallbackRegistry whose executePostHooks does not look at fallbackMode
FallbackExecutePostHooksAlways(s) == NextReturns(s)

\* the tool returns and FallbackRegistry.executePostHooks is called: the
\* primary's post-hooks unless in fallback mode
FallbackExecutePostHooks(s) ==
  \/ /\ ~fallbackMode
     /\ NextReturns(s)
  \/ /\ fallbackMode
     /\ call[s].pc = "next"
     /\ \E result \in ToolOutcomes(call[s].ctx) :
          /\ disk' = IF /\ call[s].ctx.toolName = "write_to_file"
                        /\ call[s].ctx.path # Undefined
                        /\ Truthy(result.success)
                     THEN [disk EXCEPT ![call[s].ctx.path] = call[s].ctx.content]
                     ELSE disk
          /\ call' = [call EXCEPT ![s].pc = "done", ![s].result = result,
                                  ![s].next = [threw |-> FALSE, value |-> result]]
     /\ UNCHANGED <<now, sessionIntent, utilVars, registryVars, lockVars, fileVersions, logVars,
                    callsStarted, lockOp>>

\* one run of the setInterval callback of startHealthCheck.  The probe runs
\* the primary's pre-hooks of "health_check": the global pre-hooks, of which
\* there are none here
HealthCheck ==
  /\ now > 0
  /\ now % HealthCheckMs = 0
  /\ healthCheck.at # now
  /\ healthCheck' = [at |-> now,
                     found |-> IF ~fallbackMode THEN "primary in use"
                               ELSE IF primaryFails THEN "still failing"
                               ELSE "recovered"]
  /\ fallbackMode' = (fallbackMode /\ primaryFails)
  /\ UNCHANGED <<now, sessionIntent, utilVars, preHooks, postHooks, globalPreHooks, globalPostHooks,
                 traceRecorderInstance, primaryFails, fallbackSince, disk, lockVars,
                 fileVersions, logVars, callVars>>

\* the primary registry starts to reject, and stops
PrimaryBreaks ==
  /\ ~primaryFails
  /\ primaryFails' = TRUE
  /\ UNCHANGED <<now, sessionIntent, utilVars, preHooks, postHooks, globalPreHooks, globalPostHooks,
                 traceRecorderInstance, fallbackMode, fallbackSince, healthCheck, disk,
                 lockVars, fileVersions, logVars, callVars>>

PrimaryRecovers ==
  /\ primaryFails
  /\ primaryFails' = FALSE
  /\ UNCHANGED <<now, sessionIntent, utilVars, preHooks, postHooks, globalPreHooks, globalPostHooks,
                 traceRecorderInstance, fallbackMode, fallbackSince, healthCheck, disk,
                 lockVars, fileVersions, logVars, callVars>>

\* the clock, with the health check run whenever its timer is due
FallbackTick ==
  /\ now + TickMs <= MaxTime
  /\ ~ENABLED HealthCheck
  /\ now' = now + TickMs
  /\ UNCHANGED <<sessionIntent, utilVars, registryVars, disk, lockVars, fileVersions, logVars, callVars>>

(***************************************************************************)
(* ParallelSessionManager.                                                 *)
(***************************************************************************)
NoSession == [registered |-> FALSE, lastActive |-> 0]

SessionEvent(event, agentId) == [event |-> event, agentId |-> agentId]

registerSession(agentId) ==
  /\ sessions' = [sessions EXCEPT ![agentId] = [registered |-> TRUE, lastActive |-> now]]
  /\ emitted' = {SessionEvent("sessionStarted", agentId)}
  /\ UNCHANGED <<programVars, evaluation, mapVars>>

updateSession(agentId) ==
  /\ sessions' = IF sessions[agentId].registered
                 THEN [sessions EXCEPT ![agentId].lastActive = now]
                 ELSE sessions
  /\ emitted' = {}
  /\ UNCHANGED <<programVars, evaluation, mapVars>>

\* a health check that takes a session of exactly the threshold age too
SessionHealthCheckAtThreshold ==
  LET Stale(agentId) ==
        sessions[agentId].registered /\ now - sessions[agentId].lastActive >= StaleSessionMs
  IN  /\ now > 0
      /\ now % SessionCheckMs = 0
      /\ sessions' = [a \in Sessions |-> IF Stale(a) THEN NoSession ELSE sessions[a]]
      /\ emitted' = {SessionEvent("sessionExpired", a) : a \in {b \in Sessions : Stale(b)}}
      /\ UNCHANGED <<programVars, evaluation, mapVars>>

\* one run of the setInterval callback of startHealthCheck
SessionHealthCheck ==
  LET Stale(agentId) ==
        sessions[agentId].registered /\ now - sessions[agentId].lastActive > StaleSessionMs
  IN  /\ now > 0
      /\ now % SessionCheckMs = 0
      /\ sessions' = [a \in Sessions |-> IF Stale(a) THEN NoSession ELSE sessions[a]]
      /\ emitted' = {SessionEvent("sessionExpired", a) : a \in {b \in Sessions : Stale(b)}}
      /\ UNCHANGED <<programVars, evaluation, mapVars>>

\* a minute passes
SessionTick ==
  /\ now + SessionCheckMs <= MaxSessionTime
  /\ now' = now + SessionCheckMs
  /\ UNCHANGED <<sessionIntent, utilVars, registryVars, disk, lockVars, fileVersions, logVars,
                 callVars>>

(***************************************************************************)
(* updateIntentMap, the tail of enhancedTraceRecorder: it is started once  *)
(* the trace is in the journal, reads intent_map.md and writes it back     *)
(* whole, and nobody awaits it.                                            *)
(***************************************************************************)
\* the journal lines a run can write
TraceSlots == 1..(2 * (MaxWrites + 1))

NoMapUpdate == [pc |-> "idle", content |-> <<>>]

MapLine(line, intentId, filePath, trace) ==
  [line |-> line, intent |-> intentId, file |-> filePath, trace |-> trace]

\* up to the end of fs.readFile: the intent is looked up and the map is read
updateIntentMapRead(i) ==
  /\ i \in DOMAIN journal
  /\ journal[i].session_id # Undefined
  /\ mapUpdates[i].pc = "idle"
  /\ mapUpdates' = [mapUpdates EXCEPT ![i] =
                      IF getIntentById(journal[i].related[1].value) = NotFound
                      THEN [pc |-> "returned", content |-> <<>>]
                      ELSE [pc |-> "read", content |-> intentMap]]
  /\ UNCHANGED <<programVars, evaluation, sessions, emitted, intentMap>>

\* from there to the end of fs.writeFile: the bullet goes under the intent's
\* heading, or a new section is added, and the file is written
updateIntentMapWrite(i) ==
  LET intentId == journal[i].related[1].value
      fileEntry == MapLine("bullet", intentId, journal[i].relative_path, i)
      Written(content) ==
        LET headings == {k \in DOMAIN content :
                           content[k].line = "section" /\ content[k].intent = intentId}
            Insert(insertIndex) ==
              SubSeq(content, 1, insertIndex) \o <<fileEntry>>
                \o SubSeq(content, insertIndex + 1, Len(content))
        IN  IF headings # {}
            THEN Insert(CHOOSE k \in headings : \A j \in headings : k <= j)
            ELSE content \o <<MapLine("section", intentId, Undefined, 0), fileEntry>>
  IN  /\ i \in TraceSlots
      /\ mapUpdates[i].pc = "read"
      /\ intentMap' = Written(mapUpdates[i].content)
      /\ mapUpdates' = [mapUpdates EXCEPT ![i] = [pc |-> "written", content |-> <<>>]]
      /\ UNCHANGED <<programVars, evaluation, sessions, emitted>>

(***************************************************************************)
(* Calls of the hook utilities by a host or a test.                        *)
(***************************************************************************)
NoEvaluation == [fn |-> Undefined, args |-> <<>>, out |-> Undefined]

Evaluate(fn, args, out) ==
  /\ evaluation' = [fn |-> fn, args |-> args, out |-> out]
  /\ UNCHANGED <<programVars, sessions, emitted, mapVars>>

EvalClassify(command) == Evaluate("classify", <<command>>, classify(command))

EvalClassifyMutation(original, new, parses) ==
  Evaluate("classifyMutation", <<original, new, IF parses THEN "parsed" ELSE "not parsed">>,
           classifyMutation(original, new, parses))

EvalFallbackClassification(original, new) ==
  Evaluate("fallbackClassification", <<original, new>>, fallbackClassification(original, new))

EvalScopeMatches(scope, filePath) ==
  Evaluate("scopeMatches", <<scope, filePath>>, scopeMatches(scope, filePath))

EvalLoadActiveIntents(file) ==
  Evaluate("loadActiveIntents", <<file>>, loadActiveIntentsFrom(file))

EvalGetIntentById(file, intentId) ==
  Evaluate("getIntentById", <<file, intentId>>, getIntentByIdFrom(file, intentId))

EvalValidateIntentScope(file, intentId, filePath) ==
  Evaluate("validateIntentScope", <<file, intentId, filePath>>,
           validateIntentScopeFrom(file, intentId, filePath))

Init ==
  /\ now = 0
  /\ sessionIntent \in SessionIntents
  /\ preHooks = initializeHooks_preHooks
  /\ postHooks = initializeHooks_postHooks
  /\ globalPreHooks = <<>>
  /\ globalPostHooks = <<"lessonRecorder", "recoveryLogger">>
  /\ traceRecorderInstance = FALSE
  /\ fallbackMode = FALSE
  /\ primaryFails = FALSE
  /\ fallbackSince = 0
  /\ healthCheck = NoHealthCheck
  /\ evaluation = NoEvaluation
  /\ sessions = [a \in Sessions |-> NoSession]
  /\ emitted = {}
  /\ intentMap = <<>>
  /\ mapUpdates = [i \in TraceSlots |-> NoMapUpdate]
  /\ disk = [p \in Paths |-> IF p = "s/a" THEN "" ELSE Absent]
  /\ activeLocks = {}
  /\ waitingWrites = [k \in PathKeys |-> <<>>]
  /\ fileVersions = [k \in PathKeys \X Sessions |-> Undefined]
  /\ journal = <<>>
  /\ claudeMd = <<>>
  /\ call = [s \in Sessions |-> IdleCall]
  /\ callsStarted = 0
  /\ lockOp = NoLockOp

Next ==
  \/ /\ callsStarted < MaxCalls
     /\ \E s \in Sessions, t \in Tools : \E args \in ArgsOf(t) : ExecuteTool(s, t, args)
  \/ \E s \in Sessions, approval \in Approvals : ApprovalAnswer(s, approval)
  \/ \E s \in Sessions : NextReturns(s)
  \/ \E s \in Sessions : NextThrows(s)
  \/ \E s \in Sessions, p \in Paths : RegisterReadVersion(s, p)
  \/ CleanupInterval
  \/ Tick
  \/ initializePhases34

Spec == Init /\ [][Next]_vars

\* the behaviours in which the sessions only write files
WriteNext ==
  \/ /\ callsStarted < MaxWrites
     /\ \E s \in Sessions : \E args \in ArgsOf("write_to_file") :
          ExecuteTool(s, "write_to_file", args)
  \/ \E s \in Sessions, approval \in Approvals : ApprovalAnswer(s, approval)
  \/ \E s \in Sessions : NextReturns(s)
  \/ \E s \in Sessions : NextThrows(s)
  \/ \E s \in Sessions, p \in Paths : RegisterReadVersion(s, p)
  \/ CleanupInterval
  \/ Tick
  \/ initializePhases34

WriteSpec == Init /\ [][WriteNext]_vars

\* the behaviours in which the sessions write files and the intent map is
\* brought up to date behind them
MapNext ==
  \/ WriteNext
  \/ \E i \in TraceSlots : updateIntentMapRead(i)
  \/ \E i \in TraceSlots : updateIntentMapWrite(i)

MapSpec == Init /\ [][MapNext]_vars

\* the behaviours in which hosts drive the lock manager directly
LockNext ==
  \/ \E s \in Sessions, p \in LockPaths : AcquireLock(s, p)
  \/ \E s \in Sessions, p \in LockPaths : ReleaseLock(s, p)
  \/ \E s \in Sessions, p \in LockPaths : QueueWrite(s, p)
  \/ \E s \in Sessions, p \in Paths : RegisterReadVersion(s, p)
  \/ CleanupInterval
  \/ Tick

LockSpec == Init /\ [][LockNext]_vars

\* the tools a host registers the throwing hook on
ErrorHookTools == {"write_to_file"}

IsRegistered(hooks, hook) == \E k \in DOMAIN hooks : hooks[k] = hook

\* the calls that meet a throwing hook: a tool errorHook may be registered on,
\* or any tool but select_active_intent with args undefined
ErrorCalls ==
  UNION {{<<t, args>> : args \in ArgsOf(t)} : t \in ErrorHookTools}
    \cup {<<t, NoArgs>> : t \in Tools \ {"select_active_intent"}}

\* the behaviours with hooks that throw: a host registers errorHook, each list
\* taking it once, and tools are also called with args undefined
HookErrorNext ==
  \/ /\ callsStarted < MaxCalls
     /\ \E s \in Sessions, c \in ErrorCalls : ExecuteTool(s, c[1], c[2])
  \/ \E s \in Sessions, approval \in Approvals : ApprovalAnswer(s, approval)
  \/ \E s \in Sessions : NextReturns(s)
  \/ \E s \in Sessions : NextThrows(s)
  \/ \E t \in ErrorHookTools :
       ~IsRegistered(preHooks[t], "errorHook") /\ registerPreTool(t, "errorHook")
  \/ ~IsRegistered(globalPreHooks, "errorHook") /\ registerGlobalPre("errorHook")
  \/ initializePhases34

HookErrorSpec == Init /\ [][HookErrorNext]_vars

\* the writes whose trace records are queried by content hash
TraceWrites ==
  {[args |-> "object", path |-> p, content |-> c, command |-> Undefined,
    intent_id |-> Undefined] : p \in Paths, c \in TraceContents}

\* the behaviours in which sessions write contents with and without trailing
\* white space, with one or both trace recorders registered
TraceNext ==
  \/ /\ callsStarted < MaxCalls
     /\ \E s \in Sessions, args \in TraceWrites : ExecuteTool(s, "write_to_file", args)
  \/ \E s \in Sessions, approval \in Approvals : ApprovalAnswer(s, approval)
  \/ \E s \in Sessions : NextReturns(s)
  \/ \E s \in Sessions : NextThrows(s)
  \/ \E s \in Sessions, p \in Paths : RegisterReadVersion(s, p)
  \/ initializePhases34

TraceSpec == Init /\ [][TraceNext]_vars

\* the behaviours of a host that goes through the FallbackRegistry, with a
\* primary registry that can fail
FallbackNext ==
  \/ /\ callsStarted < MaxWrites
     /\ \E s \in Sessions, args \in ArgsOf("write_to_file") :
          FallbackExecutePreHooks(s, "write_to_file", args)
  \/ \E s \in Sessions, approval \in Approvals : ApprovalAnswer(s, approval)
  \/ \E s \in Sessions : FallbackExecutePostHooks(s)
  \/ HealthCheck
  \/ PrimaryBreaks
  \/ PrimaryRecovers
  \/ FallbackTick

FallbackSpec == Init /\ [][FallbackNext]_vars

\* the behaviours in which the hook utilities are called one after another
EvalNext ==
  \/ \E scope \in ScopeGlobs, p \in ScopePaths : EvalScopeMatches(scope, p)
  \/ \E original \in Sources, new \in Sources, parses \in BOOLEAN :
       EvalClassifyMutation(original, new, parses)
  \/ \E original \in Sources, new \in Sources : EvalFallbackClassification(original, new)
  \/ \E command \in ClassifyCommands : EvalClassify(command)
  \/ \E file \in StoreFiles : EvalLoadActiveIntents(file)
  \/ \E file \in StoreFiles, id \in IntentIds : EvalGetIntentById(file, id)
  \/ \E file \in StoreFiles, id \in IntentIds, p \in Paths :
       EvalValidateIntentScope(file, id, p)

EvalSpec == Init /\ [][EvalNext]_vars

\* the hooks a host registers for every tool
GlobalHooks == {"intentGatekeeper", "commandClassifier", "scopeEnforcer"}

\* the behaviours of a host that goes through the FallbackRegistry and has
\* registered global pre-hooks, in one order or the other, before the first
\* call
GlobalHookNext ==
  \/ /\ callsStarted < MaxCalls
     /\ \E s \in Sessions, t \in Tools : \E args \in ArgsOf(t) :
          FallbackExecutePreHooks(s, t, args)
  \/ \E s \in Sessions, approval \in Approvals : ApprovalAnswer(s, approval)
  \/ \E s \in Sessions : FallbackExecutePostHooks(s)
  \/ PrimaryBreaks
  \/ PrimaryRecovers
  \/ \E hook \in GlobalHooks :
       /\ callsStarted = 0
       /\ ~IsRegistered(globalPreHooks, hook)
       /\ registerGlobalPre(hook)

GlobalHookSpec == Init /\ [][GlobalHookNext]_vars

\* the behaviours of the session manager under a host that registers and
\* updates sessions
SessionNext ==
  \/ \E a \in Sessions : registerSession(a)
  \/ \E a \in Sessions : updateSession(a)
  \/ SessionHealthCheck
  \/ SessionTick

SessionSpec == Init /\ [][SessionNext]_vars

TypeOK ==
  /\ now \in Nat
  /\ now <= MaxTime \/ now <= MaxSessionTime
  /\ callsStarted \in Nat
  /\ \A l \in activeLocks : l.agentId \in Sessions /\ l.path \in PathKeys
  /\ \A s \in Sessions : call[s].pc \in {"idle", "confirmDestructiveCommand",
                                          "confirmScopeViolation", "queueWrite", "next", "done"}

(***************************************************************************)
(* Properties of the intent handshake, the write path and the classifier.  *)
(***************************************************************************)
\* C1: under the registrations of initializeHooks, a call of any tool other
\* than select_active_intent by a session without an intent id never invokes
\* the wrapped tool and ends with success=false and error.type INTENT_REQUIRED.
C1_NoIntentAlwaysRefused ==
  \A s \in Sessions :
    (/\ preHooks = initializeHooks_preHooks
     /\ call[s].pc \in {"next", "done"}
     /\ call[s].ctx.toolName # "select_active_intent"
     /\ call[s].ctx.intentId = Undefined)
    => (/\ ~call[s].invoked
        /\ call[s].result.success = "false"
        /\ call[s].result.error.type = "INTENT_REQUIRED")

\* C2: in every step in which the pipeline invokes the wrapped write_to_file,
\* the calling session then holds the lock on the normalized path, and its
\* registered read version exists and is the hash of the content on disk.
C2_AcceptedWriteHoldsLockAndFreshRead ==
  [][\A s \in Sessions :
       (/\ call[s].pc # "next"
        /\ call'[s].pc = "next"
        /\ call'[s].ctx.toolName = "write_to_file")
       => LET filePath == call'[s].ctx.path
              key == normalizePath(filePath)
          IN  /\ \E l \in activeLocks' : l.path = key /\ l.agentId = s
              /\ \A l \in activeLocks' : l.path = key => l.agentId = s
              /\ fileVersions'[<<key, s>>] # Undefined
              /\ disk'[filePath] # Absent
              /\ fileVersions'[<<key, s>>] = sha256(disk'[filePath])]_vars

C2_Witness ==
  \E s \in Sessions :
    /\ call[s].pc = "next"
    /\ call[s].ctx.toolName = "write_to_file"
    /\ \E l \in activeLocks : l.path = normalizePath(call[s].ctx.path) /\ l.agentId = s
    /\ \E t \in Sessions \ {s} : fileVersions[<<normalizePath(call[s].ctx.path), t>>] # Undefined

\* C3: no two locks are held on paths that are the same file up to the case
\* of their letters, so a normalized path has at most one holder.
C3_OneHolderPerNormalizedPath ==
  LET lower(p) == [i \in DOMAIN Chars[p] |-> toLowerCase(Chars[p][i])]
  IN  \A l1, l2 \in activeLocks : lower(l1.path) = lower(l2.path) => l1 = l2

C3_Witness ==
  /\ lockOp.op = "acquireLock"
  /\ lockOp.result = "false"
  /\ \E l \in activeLocks :
       /\ l.path = normalizePath(lockOp.path)
       /\ l.path # lockOp.path
       /\ l.agentId # lockOp.agentId

\* C4: a write_to_file call whose tool returned success has appended exactly
\* one record to the journal, and that record carries the written path and a
\* related entry of kind specification with the session's intent id.
C4_ExactlyOneTraceRecord ==
  \A s \in Sessions :
    (/\ call[s].pc = "done"
     /\ call[s].ctx.toolName = "write_to_file"
     /\ call[s].result.success = "true")
    => (/\ Cardinality(call[s].traces) = 1
        /\ \A i \in call[s].traces :
             /\ journal[i].relative_path = call[s].ctx.path
             /\ \E k \in DOMAIN journal[i].related :
                  journal[i].related[k] =
                    [type |-> "specification", value |-> call[s].ctx.intentId])

\* C5: a call whose context a pre-hook left blocked never invokes the wrapped
\* tool, and its result is success=false with the error and the llmError the
\* blocking hook set.
C5_BlockedNeverInvoked ==
  \A s \in Sessions :
    call[s].ctx.blocked
    => (/\ ~call[s].invoked
        /\ call[s].pc = "done"
        /\ call[s].result.success = "false"
        /\ call[s].result.error = call[s].ctx.error
        /\ call[s].result.error.type # Undefined
        /\ call[s].result.llmError = call[s].ctx.llmError)

C5_Witness ==
  \E s \in Sessions :
    /\ call[s].ctx.blocked
    /\ call[s].pc = "done"
    /\ call[s].ctx.toolName = "execute_command"
    /\ call[s].result.error.type = "DESTRUCTIVE_COMMAND"

\* C6: once select_active_intent has returned, the session's intent id is the
\* selected id if the store has it (the call reporting success), and is what
\* it was at entry if it has not (the call reporting an error).
C6_SelectSetsSessionIntent ==
  \A s \in Sessions :
    (call[s].pc = "done" /\ call[s].ctx.toolName = "select_active_intent")
    => IF getIntentById(call[s].ctx.intent_id) # NotFound
       THEN call[s].result.status = "success" /\ sessionIntent[s] = call[s].ctx.intent_id
       ELSE call[s].result.status = "error" /\ sessionIntent[s] = call[s].ctx.intentId

\* C7: of two write_to_file calls on the same file by two sessions whose read
\* versions are current, the first finding the path unlocked and the second
\* finding the first's live lock, the first is accepted and the second is
\* blocked with FILE_LOCKED at queue position 0.
C7_ExactlyOneAcceptedInFirstRound ==
  \A a, b \in Sessions :
    (/\ a # b
     /\ \A s \in {a, b} :
          /\ call[s].pc \in {"next", "done"}
          /\ call[s].ctx.toolName = "write_to_file"
          /\ call[s].ctx.intentId # Undefined
          /\ call[s].ctx.error.type \notin {"INTENT_REQUIRED", "FILE_EXCLUDED", "SCOPE_VIOLATION"}
          /\ call[s].entry.fresh
     /\ normalizePath(call[a].ctx.path) = normalizePath(call[b].ctx.path)
     /\ call[a].entry.lockHolder = Undefined
     /\ call[b].entry.lockHolder = a)
    => (/\ call[a].invoked
        /\ ~call[b].invoked
        /\ call[b].result.error.type = "FILE_LOCKED"
        /\ call[b].result.error.suggestion
             = "Your write has been queued (position 0). Please wait.")

\* C8: in every step that ends the pre-hooks of a write_to_file call whose
\* session registered a read version that is no longer the hash of the file,
\* the tool is not invoked, and if the path's lock was free the call is
\* blocked with STALE_FILE; a write is invoked only on a current read version.
C8_StaleReplayBlocked ==
  [][\A s \in Sessions :
       (/\ call[s].pc # "next"
        /\ call'[s] # call[s]
        /\ call'[s].pc \in {"next", "done"}
        /\ call'[s].ctx.toolName = "write_to_file")
       => LET filePath == call'[s].ctx.path
              key == normalizePath(filePath)
              readVersion == fileVersions[<<key, s>>]
              stale == readVersion # Undefined /\ readVersion # readVersionHash(filePath)
              reached == /\ call'[s].ctx.intentId # Undefined
                         /\ call'[s].ctx.error.type \notin
                              {"INTENT_REQUIRED", "FILE_EXCLUDED", "SCOPE_VIOLATION"}
              free == \A l \in activeLocks : l.path # key
          IN  /\ stale => ~call'[s].invoked
              /\ (stale /\ reached /\ free)
                   => /\ call'[s].pc = "done"
                      /\ call'[s].result.success = "false"
                      /\ call'[s].result.error.type = "STALE_FILE"
              /\ call'[s].invoked => readVersion = readVersionHash(filePath)]_vars

C8_Witness ==
  \E a, b \in Sessions :
    /\ a # b
    /\ call[a].pc = "done" /\ call[a].ctx.toolName = "write_to_file"
    /\ call[a].result.success = "true"
    /\ disk[call[a].ctx.path] = call[a].ctx.content
    /\ call[b].pc = "done" /\ call[b].ctx.toolName = "write_to_file"
    /\ call[b].ctx.path = call[a].ctx.path
    /\ call[b].result.error.type = "STALE_FILE"
    /\ call[b].result.error.message = "STALE_FILE: File has been modified by another agent"
    /\ ~call[b].invoked
    /\ activeLocks = {}

\* C9: validateWrite answers not valid, no read version recorded, for every
\* path and session without a read version of its own, whatever is on disk
\* and whatever other sessions registered; and no write_to_file of a session
\* without a read version of the path is invoked.
C9_NoReadNoWrite ==
  /\ \A p \in Paths, s \in Sessions :
       fileVersions[<<normalizePath(p), s>>] = Undefined
       => validateWrite(p, s) =
            [valid |-> FALSE,
             error |-> "No read version recorded. Must read file before writing."]
  /\ \A s \in Sessions :
       (/\ call[s].ctx.toolName = "write_to_file"
        /\ fileVersions[<<normalizePath(call[s].ctx.path), s>>] = Undefined)
       => (/\ ~call[s].invoked
           /\ call[s].pc = "done" => call[s].result.success = "false")

C9_Witness ==
  \E s \in Sessions, t \in Sessions :
    /\ s # t
    /\ call[s].pc = "done" /\ call[s].ctx.toolName = "write_to_file"
    /\ fileVersions[<<normalizePath(call[s].ctx.path), s>>] = Undefined
    /\ fileVersions[<<normalizePath(call[s].ctx.path), t>>]
         = readVersionHash(call[s].ctx.path)
    /\ call[s].result.error.message
         = "No read version recorded. Must read file before writing."

C11_ScopeViolationNeedsApproval ==
  [][\A s \in Sessions :
       LET c == call'[s]
       IN  (/\ c.ctx.toolName = "write_to_file"
            /\ c.ctx.intentId # Undefined
            /\ ~validateIntentScope(c.ctx.intentId, c.ctx.path))
           => /\ c.invoked => c.answer = "approved"
              /\ c.answer = "rejected"
                   => /\ c.pc = "done"
                      /\ ~c.invoked
                      /\ c.result.success = "false"
                      /\ c.result.error.type = "SCOPE_VIOLATION"
                      /\ c.result.error.scopes = getIntentById(c.ctx.intentId).owned_scope
                      /\ c.traces = {}
                      /\ call[s].answer # "rejected" => journal' = journal]_vars

C11_Witness ==
  \E s \in Sessions :
    /\ call[s].pc = "done"
    /\ call[s].ctx.toolName = "write_to_file"
    /\ call[s].ctx.intentId = "INT-001"
    /\ call[s].ctx.path = "s/A"
    /\ call[s].answer = "rejected"
    /\ call[s].result.error.type = "SCOPE_VIOLATION"
    /\ call[s].result.error.scopes = <<"s/a*">>
    /\ journal = <<>>

C14_ThrowingPreHookGivesHookError ==
  \A s \in Sessions :
    (/\ call[s].pc = "done"
     /\ \E i \in DOMAIN call[s].hookLog : call[s].hookLog[i].threw)
    => (/\ call[s].result.success = "false"
        /\ call[s].result.error.type = "HOOK_ERROR")

\* C15: every finished call has a result.  If the pre-hooks blocked it, the
\* result is the hook's error; if next() threw, it is success=false with
\* error.type HOOK_ERROR and recoverable=true; if next() returned, it is
\* exactly what next() returned, also when a post-hook failed.
C15_PipelineNeverThrows ==
  \A s \in Sessions :
    LET c == call[s]
    IN  c.pc = "done"
        => /\ c.result # NoResult
           /\ ~c.invoked
                => c.result.success = "false" /\ c.result.error = c.ctx.error
           /\ (c.invoked /\ c.next.threw)
                => /\ c.result.success = "false"
                   /\ c.result.error.type = "HOOK_ERROR"
                   /\ c.result.error.recoverable = "true"
           /\ (c.invoked /\ ~c.next.threw) => c.result = c.next.value

C15_Witness ==
  \E s \in Sessions :
    /\ call[s].pc = "done"
    /\ call[s].invoked
    /\ \E i \in DOMAIN call[s].hookLog : call[s].hookLog[i].threw
    /\ call[s].next.threw
    /\ call[s].result.error.type = "HOOK_ERROR"
    /\ call[s].result.error.recoverable = "true"

(***************************************************************************)
(* Properties of lock release and of the journal.                          *)
(***************************************************************************)
\* C16: once a write_to_file call whose tool was invoked has finished and its
\* post-hooks have run, whatever the tool's result, the session no longer
\* holds the lock on the path.
C16_LockReleasedAfterWrite ==
  \A s \in Sessions :
    (/\ call[s].pc = "done"
     /\ call[s].ctx.toolName = "write_to_file"
     /\ call[s].invoked)
    => ~\E l \in activeLocks :
          l.path = normalizePath(call[s].ctx.path) /\ l.agentId = s

\* C17: a run of the reaper removes every lock acquired more than 60 s ago
\* and takes the head off that path's wait queue, and leaves every lock that
\* is at most 60 s old, and its queue, as they were.
C17_ReaperReleasesOldLocks ==
  [][CleanupInterval
       => \A l \in activeLocks :
            IF now - l.acquired > 60000
            THEN /\ \A x \in activeLocks' : x.path # l.path
                 /\ waitingWrites'[l.path] =
                      IF waitingWrites[l.path] = <<>> THEN <<>> ELSE Tail(waitingWrites[l.path])
            ELSE /\ l \in activeLocks'
                 /\ waitingWrites'[l.path] = waitingWrites[l.path]]_vars

\* the last call on the lock manager found a live lock on its path; that lock
\* has gone since, and a lock that is exactly 60 s old is still held
C17_Witness ==
  /\ lockOp.op = "acquireLock"
  /\ lockOp.result = "false"
  /\ \A l \in activeLocks : l.path # normalizePath(lockOp.path)
  /\ \E l \in activeLocks : now - l.acquired = 60000

\* C19: the step in which a call ends, blocked by a pre-hook or with a result
\* of success=false from the wrapped tool, leaves the trace journal as it was.
C19_NoTraceForBlockedOrFailedCall ==
  [][\A s \in Sessions :
       (/\ call[s].pc # "done"
        /\ call'[s].pc = "done"
        /\ \/ call'[s].ctx.blocked
           \/ ~call'[s].next.threw /\ call'[s].next.value.success = "false")
         => journal' = journal]_vars

\* a write_to_file went through the pre-hooks, its tool returned
\* success=false, and the trace recorders were registered for the tool
C19_Witness ==
  \E s \in Sessions :
    /\ call[s].pc = "done"
    /\ call[s].ctx.toolName = "write_to_file"
    /\ ~call[s].ctx.blocked
    /\ call[s].invoked
    /\ call[s].next.value.success = "false"
    /\ IsRegistered(postHooks["write_to_file"], "traceRecorder")
    /\ IsRegistered(postHooks["write_to_file"], "enhancedTraceRecorder")
    /\ traceRecorderInstance

(***************************************************************************)
(* Properties of the trace journal's content-hash query.                   *)
(***************************************************************************)
\* C20: every trace record appended for a successful write_to_file of content
\* C, by traceRecorder or by enhancedTraceRecorder, is among the records that
\* findByContentHash returns for the hash of the normalized C.
C20_TraceFoundByNormalizedHash ==
  \A s \in Sessions :
    (/\ call[s].pc = "done"
     /\ call[s].ctx.toolName = "write_to_file"
     /\ call[s].result.success = "true")
      => \A i \in call[s].traces :
           i \in findByContentHash(normalizeAndHash(call[s].ctx.content))

(***************************************************************************)
(* Properties of the FallbackRegistry.                                     *)
(***************************************************************************)
\* C18: a call whose pre-hooks the primary registry rejects, and every call
\* made while fallbackMode is set, gets its context back unblocked and
\* without an error, with no hook run and no lock taken, and goes on to the
\* tool; the post-hooks of a call that ends in fallback mode write nothing;
\* fallbackMode is cleared by a health check that finds the primary working
\* and by nothing else; a health check that finds the primary working clears
\* it, so that it stays set for more than 60 s only if the last health check
\* found the primary still failing; and a call made with fallbackMode clear
\* and the primary working runs its pre-hooks.
C18_BypassUntilHealthCheckSucceeds ==
  /\ [](fallbackMode /\ now - fallbackSince > 60000
          => healthCheck.at >= fallbackSince /\ healthCheck.found = "still failing")
  /\ [][/\ \A s \in Sessions :
            /\ (/\ call[s].pc \in {"idle", "done"}
                /\ call'[s].pc \notin {"idle", "done"}
                /\ fallbackMode \/ primaryFails)
                 => /\ call'[s].pc = "next"
                    /\ ~call'[s].ctx.blocked
                    /\ call'[s].ctx.error = NoError
                    /\ call'[s].hookLog = <<>>
                    /\ activeLocks' = activeLocks
                    /\ fallbackMode'
            /\ (/\ call[s].pc \in {"idle", "done"}
                /\ call'[s] # call[s]
                /\ ~fallbackMode /\ ~primaryFails)
                 => /\ call'[s].hookLog # <<>>
                    /\ ~fallbackMode'
            /\ (call[s].pc = "next" /\ call'[s].pc = "done" /\ fallbackMode)
                 => journal' = journal /\ claudeMd' = claudeMd
        /\ (fallbackMode /\ ~fallbackMode')
             => /\ healthCheck' # healthCheck
                /\ healthCheck'.at = now
                /\ ~primaryFails
        /\ (healthCheck' # healthCheck /\ ~primaryFails) => ~fallbackMode']_vars

\* a session's first call met the failing primary and its write went through
\* with no trace of it in the journal, the health check at 60 s found the
\* primary working again, and the session's second call ran its pre-hooks
C18_Witness ==
  /\ ~fallbackMode
  /\ healthCheck.found = "recovered"
  /\ callsStarted = 2
  /\ disk["s/a"] = "x"
  /\ journal = <<>>
  /\ \E s, t \in Sessions :
       /\ call[t] = IdleCall
       /\ call[s].pc = "done"
       /\ call[s].ctx.userFeedback = Undefined
       /\ call[s].hookLog # <<>>

(***************************************************************************)
(* Properties of the hook utilities.                                       *)
(***************************************************************************)
\* C21: over a store file that is missing or does not hold a list of intents,
\* loadActiveIntents returns without an exception and with no intent,
\* getIntentById returns not-found for every id, and over any store file
\* validateIntentScope returns false for an id the store does not hold; none
\* of the three throws.
C21_BrokenStoreFailsClosed ==
  LET file == evaluation.args[1]
      Broken(f) == f # "active_intents: [INT-001, INT-002]"
  IN  /\ (evaluation.fn = "loadActiveIntents" /\ Broken(file))
           => /\ ~evaluation.out.threw
              /\ evaluation.out.active_intents.items = <<>>
      /\ (evaluation.fn = "getIntentById" /\ Broken(file))
           => /\ ~evaluation.out.threw
              /\ evaluation.out.value = NotFound
      /\ (/\ evaluation.fn = "validateIntentScope"
          /\ \A k \in DOMAIN active_intents :
               Broken(file) \/ active_intents[k].id # evaluation.args[2])
           => /\ ~evaluation.out.threw
              /\ evaluation.out.value = FALSE

\* C22: classify gives the risk and the reason of the first destructive
\* pattern that matches the command, whatever safe pattern matches too; it
\* gives destructive for npm install, pnpm add and pip install; and it gives
\* unknown for a command that no pattern matches.
C22_DestructiveFirstAndInstallsDestructive ==
  evaluation.fn = "classify"
    => LET command == evaluation.args[1]
           d == FirstMatch(DESTRUCTIVE_PATTERNS, command)
           sf == FirstMatch(SAFE_PATTERNS, command)
       IN  /\ d # 0 => /\ evaluation.out.risk = "destructive"
                       /\ evaluation.out.reason = DESTRUCTIVE_PATTERNS[d].reason
           /\ command \in {"npm install", "pnpm add", "pip install"}
                => evaluation.out.risk = "destructive"
           /\ (d = 0 /\ sf = 0) => evaluation.out.risk = "unknown"
           /\ (d = 0 /\ sf # 0) => evaluation.out.reason = SAFE_PATTERNS[sf].reason

\* C23: classifyMutation, with the parser working or not, and
\* fallbackClassification return BUG_FIX with confidence 0.8 or more whenever
\* the original holds a TODO or FIXME that the new version does not hold and
\* the new version holds no documentation annotation.
C23_RemovedTodoIsBugFix ==
  evaluation.fn \in {"classifyMutation", "fallbackClassification"}
    => LET original == evaluation.args[1]
           new == evaluation.args[2]
       IN  (/\ \/ includes(original, "TODO") /\ ~includes(new, "TODO")
               \/ includes(original, "FIXME") /\ ~includes(new, "FIXME")
            /\ ~includes(new, "@"))
             => /\ evaluation.out.class = "BUG_FIX"
                /\ evaluation.out.confidence >= 80

\* C24: the scope check of one glob against a path does not throw and is
\* true exactly when the glob matches the whole path with "*" for a run of
\* characters other than "/", "**" for any run of characters, "?" for one
\* character other than "/", and every other character for itself.
C24_ScopeCheckIsStandardGlob ==
  evaluation.fn = "scopeMatches"
    => LET RECURSIVE Glob(_, _, _, _)
           Glob(pat, i, str, j) ==
             IF i > Len(pat) THEN j > Len(str)
             ELSE IF pat[i] = "*" /\ i < Len(pat) /\ pat[i + 1] = "*"
             THEN \E k \in j..(Len(str) + 1) : Glob(pat, i + 2, str, k)
             ELSE IF pat[i] = "*"
             THEN \E k \in j..(Len(str) + 1) :
                    /\ \A n \in j..(k - 1) : str[n] # "/"
                    /\ Glob(pat, i + 1, str, k)
             ELSE IF pat[i] = "?"
             THEN j <= Len(str) /\ str[j] # "/" /\ Glob(pat, i + 1, str, j + 1)
             ELSE j <= Len(str) /\ str[j] = pat[i] /\ Glob(pat, i + 1, str, j + 1)
       IN  /\ ~evaluation.out.threw
           /\ evaluation.out.value
                = Glob(Chars[evaluation.args[1]], 1, Chars[evaluation.args[2]], 1)

(***************************************************************************)
(* Properties of the session manager.                                      *)
(***************************************************************************)
\* C25: a run of the session manager's health check removes every registered
\* session whose last activity is more than 5 minutes back and emits
\* sessionExpired for it, and leaves every other session as it is, with no
\* event for it; and no step removes a session that was active within the
\* last 5 minutes.
C25_IdleSessionsExpire ==
  [][/\ SessionHealthCheck
          => \A a \in Sessions :
               IF sessions[a].registered /\ now - sessions[a].lastActive > 300000
               THEN /\ ~sessions'[a].registered
                    /\ SessionEvent("sessionExpired", a) \in emitted'
               ELSE /\ sessions'[a] = sessions[a]
                    /\ SessionEvent("sessionExpired", a) \notin emitted'
     /\ \A a \in Sessions :
          (sessions[a].registered /\ ~sessions'[a].registered)
            => now - sessions[a].lastActive > 300000]_vars

\* one session has just been expired, and another, last active exactly
\* 5 minutes ago, is still registered
C25_Witness ==
  \E a, b \in Sessions :
    /\ ~sessions[a].registered
    /\ SessionEvent("sessionExpired", a) \in emitted
    /\ sessions[b].registered
    /\ now - sessions[b].lastActive = 300000

(***************************************************************************)
(* Properties of the order of the pre-hooks.                               *)
(***************************************************************************)
\* C26: the pre-hooks a call has invoked so far are, in order, the first of
\* the global hooks followed by the tool's hooks, each list in registration
\* order, and none of them was handed a context that an earlier hook had
\* already blocked.
C26_OrderedAndShortCircuited ==
  \A s \in Sessions :
    call[s].ctx.toolName # Undefined
      => LET log == call[s].hookLog
             all == globalPreHooks \o preHooks[call[s].ctx.toolName]
         IN  /\ Len(log) <= Len(all)
             /\ \A k \in DOMAIN log : log[k].hook = all[k]
             /\ \A k \in DOMAIN log : ~log[k].ctx.blocked

\* C27: within a call, the contexts handed from one pre-hook to the next and
\* the context the pre-hook phase ends with never go from blocked back to
\* not blocked, whether the phase ran in the primary registry or was
\* answered by the FallbackRegistry.
C27_BlockedIsMonotonic ==
  \A s \in Sessions :
    LET log == call[s].hookLog
    IN  \A k \in DOMAIN log :
          log[k].ctx.blocked
            => /\ \A j \in DOMAIN log : j > k => log[j].ctx.blocked
               /\ call[s].ctx.blocked

\* a pre-hook that does not block was handed a context that an earlier hook
\* had blocked, and the call ended blocked
C27_Witness ==
  \E s \in Sessions :
    LET log == call[s].hookLog
    IN  /\ Len(log) >= 2
        /\ ~log[1].ctx.blocked
        /\ log[Len(log)].ctx.blocked
        /\ log[Len(log)].hook = "intentGatekeeper"
        /\ call[s].ctx.intentId # Undefined
        /\ call[s].ctx.blocked
        /\ call[s].pc = "done"

(***************************************************************************)
(* Properties of the wait queues.                                          *)
(***************************************************************************)
\* C28: on every path the waiters are woken in the order of their queueWrite
\* calls.  A step takes waiters from the head of the path's queue only and
\* adds a caller at its tail only, and a caller that is woken by its own
\* queueWrite leaves nobody behind who called earlier.
C28_WaitersWokenInCallOrder ==
  [][\A k \in PathKeys :
       LET old == waitingWrites[k]
           new == waitingWrites'[k]
       IN  /\ \E i \in 0..Len(old) :
                \/ new = SubSeq(old, i + 1, Len(old))
                \/ \E a \in Sessions : new = Append(SubSeq(old, i + 1, Len(old)), a)
           /\ (/\ lockOp'.op = "queueWrite"
               /\ lockOp'.result = "resolved"
               /\ normalizePath(lockOp'.path) = k
               /\ QueueWrite(lockOp'.agentId, lockOp'.path))
                => new = <<>>]_vars

\* a session has queued for a path another session holds, and was woken
C28_Witness ==
  /\ lockOp.op = "queueWrite"
  /\ lockOp.result = "resolved"
  /\ LockOf(activeLocks, normalizePath(lockOp.path)) # NoLock
  /\ LockOf(activeLocks, normalizePath(lockOp.path)).agentId # lockOp.agentId
  /\ waitingWrites[normalizePath(lockOp.path)] = <<>>

\* C29: a step that evicts a stale lock, acquireLock finding a holder more
\* than 30 s old or the reaper finding one more than 60 s old, keeps the
\* path's wait queue but for the waiters it takes from the head, and the
\* session whose queueWrite on the path was the call before the eviction is
\* afterwards still in the queue or has been woken.
C29_EvictionKeepsWaiters ==
  [][\A k \in PathKeys :
       LET old == waitingWrites[k]
           new == waitingWrites'[k]
           lock == LockOf(activeLocks, k)
           ReaperEvicts ==
             lock # NoLock /\ now - lock.acquired > ReapLockMs /\ CleanupInterval
           AcquireEvicts ==
             /\ lock # NoLock /\ now - lock.acquired > StaleLockMs
             /\ lockOp'.op = "acquireLock"
             /\ normalizePath(lockOp'.path) = k
             /\ AcquireLock(lockOp'.agentId, lockOp'.path)
       IN  ReaperEvicts \/ AcquireEvicts
             => /\ \E i \in 0..Len(old) : new = SubSeq(old, i + 1, Len(old))
                /\ (lockOp.op = "queueWrite" /\ normalizePath(lockOp.path) = k)
                     => \/ lockOp.result = "resolved"
                        \/ \E j \in DOMAIN new : new[j] = lockOp.agentId]_vars

\* the last call on the lock manager queued a session behind a lock that was
\* held by another session at the time and has been evicted since
C29_Witness ==
  /\ lockOp.op = "queueWrite"
  /\ lockOp.incumbent # NoLock
  /\ lockOp.incumbent.agentId # lockOp.agentId
  /\ lockOp.incumbent \notin activeLocks
  /\ \A l \in activeLocks : l.path # normalizePath(lockOp.path)
  /\ \/ lockOp.result = "resolved"
     \/ \E j \in DOMAIN waitingWrites[normalizePath(lockOp.path)] :
          waitingWrites[normalizePath(lockOp.path)][j] = lockOp.agentId

\* C30: acquireLock on an unlocked path, or on a path whose holder took the
\* lock more than 30 s ago, returns true and makes the caller the holder as
\* of now; on a path whose lock is at most 30 s old it returns false and
\* leaves the holder and its time as they were, the caller's own lock
\* included.
C30_AcquireOnlyFreeOrStale ==
  [][(lockOp'.op = "acquireLock" /\ AcquireLock(lockOp'.agentId, lockOp'.path))
       => LET k == normalizePath(lockOp'.path)
              lock == LockOf(activeLocks, k)
          IN  IF lock = NoLock \/ now - lock.acquired > 30000
              THEN /\ lockOp'.result = "true"
                   /\ LockOf(activeLocks', k) =
                        [path |-> k, agentId |-> lockOp'.agentId, acquired |-> now]
                   /\ \A l \in activeLocks' : l.path = k => l = LockOf(activeLocks', k)
              ELSE /\ lockOp'.result = "false"
                   /\ activeLocks' = activeLocks]_vars

\* the last call was an acquireLock that found another session's lock, more
\* than 30 s old, and took the path over
C30_Witness ==
  /\ lockOp.op = "acquireLock"
  /\ lockOp.result = "true"
  /\ lockOp.incumbent # NoLock
  /\ lockOp.incumbent.agentId # lockOp.agentId
  /\ now - lockOp.incumbent.acquired > 30000
  /\ LockOf(activeLocks, normalizePath(lockOp.path)) =
       [path |-> normalizePath(lockOp.path), agentId |-> lockOp.agentId, acquired |-> now]

(***************************************************************************)
(* Properties of releaseLock, queueWrite and the read versions.            *)
(***************************************************************************)
\* C31: a releaseLock by a session that does not hold the path's lock leaves
\* the locks, the wait queues and the read versions as they were; by the
\* holder it removes the lock and takes the head, if any, off the path's wait
\* queue, and leaves everything else.
C31_ReleaseOnlyByHolder ==
  [][(lockOp'.op = "releaseLock" /\ ReleaseLock(lockOp'.agentId, lockOp'.path))
       => LET k == normalizePath(lockOp'.path)
              lock == LockOf(activeLocks, k)
          IN  /\ fileVersions' = fileVersions
              /\ IF lock = NoLock \/ lock.agentId # lockOp'.agentId
                 THEN /\ activeLocks' = activeLocks
                      /\ waitingWrites' = waitingWrites
                 ELSE /\ activeLocks' = activeLocks \ {lock}
                      /\ waitingWrites' =
                           [waitingWrites EXCEPT
                              ![k] = IF @ = <<>> THEN <<>> ELSE Tail(@)]]_vars

\* the last call was a releaseLock by a session on a path another session
\* held, and that session holds it still
C31_Witness ==
  /\ lockOp.op = "releaseLock"
  /\ lockOp.incumbent # NoLock
  /\ lockOp.incumbent.agentId # lockOp.agentId
  /\ lockOp.incumbent \in activeLocks

\* C32: a session that queued behind a held lock has not been woken for as
\* long as the lock it found is still held, and being woken does not make it
\* the holder.
C32_WokenOnlyAfterRelease ==
  (lockOp.op = "queueWrite" /\ lockOp.incumbent # NoLock)
    => /\ lockOp.incumbent \in activeLocks => lockOp.result # "resolved"
       /\ lockOp.result = "resolved" /\ lockOp.incumbent.agentId # lockOp.agentId
            => LockOf(activeLocks, normalizePath(lockOp.path)).agentId # lockOp.agentId

\* C33: whenever the version a session registered for a path is the one the
\* path has on disk now, the file absent both times included, validateWrite
\* accepts the session's write.
C33_UnchangedFileValidates ==
  \A s \in Sessions, filePath \in Paths :
    fileVersions[versionKey(normalizePath(filePath), s)] = readVersionHash(filePath)
      => validateWrite(filePath, s).valid

(***************************************************************************)
(* Properties of the results and of the post-hooks.                        *)
(***************************************************************************)
\* C34: the result of a call that a pre-hook blocked has success false, an
\* error of one of the seven blocking types and a recovery payload in
\* llmError.
C34_BlockedResultIsStructured ==
  \A s \in Sessions :
    (call[s].pc = "done" /\ call[s].ctx.blocked)
      => /\ call[s].result.success = "false"
         /\ call[s].result.error.type \in
              {"INTENT_REQUIRED", "SCOPE_VIOLATION", "DESTRUCTIVE_COMMAND", "STALE_FILE",
               "FILE_LOCKED", "FILE_EXCLUDED", "COMMAND_EXCLUDED"}
         /\ call[s].result.llmError \notin {Undefined, ""}

\* C35: the step in which a call ends with a result of success false, from
\* a blocking pre-hook or from the wrapped tool, appends one lesson to
\* CLAUDE.md that names the call's intent, its tool and the error.
C35_EveryFailureLeavesALesson ==
  [][\A s \in Sessions :
       (/\ call'[s] # call[s]
        /\ call'[s].pc = "done"
        /\ call'[s].result.success = "false")
         => LET lessons ==
                  {k \in (Len(claudeMd) + 1)..Len(claudeMd') :
                     claudeMd'[k].entry = "Lesson Learned"}
            IN  /\ Cardinality(lessons) = 1
                /\ \A k \in lessons :
                     /\ claudeMd'[k].tool = call'[s].ctx.toolName
                     /\ claudeMd'[k].intent = IF call'[s].ctx.intentId # Undefined
                                               THEN call'[s].ctx.intentId ELSE "none"
                     /\ claudeMd'[k].error = call'[s].result.error.message]_vars

\* C36: a session whose call is suspended on the approval port, for a
\* destructive command or for a scope violation, holds no file lock.
C36_NoLockWhileAwaitingApproval ==
  \A s \in Sessions :
    call[s].pc \in {"confirmDestructiveCommand", "confirmScopeViolation"}
      => \A l \in activeLocks : l.agentId # s

\* C37: once the updateIntentMap of a traced write has written the map, and
\* from then on, the map has the bullet of that write.
C37_IntentMapKeepsEveryBullet ==
  \A i \in TraceSlots :
    mapUpdates[i].pc = "written"
      => \E k \in DOMAIN intentMap :
           /\ intentMap[k].line = "bullet"
           /\ intentMap[k].trace = i
           /\ intentMap[k].file = journal[i].relative_path

(***************************************************************************)
(* Properties of the lock a write holds at the exits of a call.            *)
(***************************************************************************)
\* C38: a write_to_file call whose tool threw has ended with HOOK_ERROR, and
\* the session does not hold the lock on the call's path.
C38_ThrowingToolReleasesLock ==
  \A s \in Sessions :
    (/\ call[s].pc = "done"
     /\ call[s].ctx.toolName = "write_to_file"
     /\ call[s].next.threw)
      => /\ call[s].result = HookErrorResult
         /\ call[s].ctx.path # Undefined
              => \A l \in activeLocks :
                   ~(l.path = normalizePath(call[s].ctx.path) /\ l.agentId = s)

\* C39: a write_to_file that ran staleFileDetector twice, by a session with
\* an intent on a path in the intent's scope that is not excluded, with a
\* fresh read version and no lock on the path at the start, is not blocked.
C39_SecondDetectorDoesNotBlock ==
  \A s \in Sessions :
    LET log == call[s].hookLog
        ctx == call[s].ctx
    IN  (/\ ctx.toolName = "write_to_file"
         /\ ctx.path # Undefined
         /\ ctx.intentId # Undefined
         /\ Cardinality({k \in DOMAIN log : log[k].hook = "staleFileDetector"}) = 2
         /\ validateIntentScope(ctx.intentId, ctx.path)
         /\ ~isExcluded(ctx.path, ctx.intentId)
         /\ call[s].entry.fresh
         /\ call[s].entry.lockHolder = Undefined)
          => ~ctx.blocked

\* C40: no call is left waiting on the promise of queueWrite, and a
\* write_to_file whose staleFileDetector found the path under a live lock has
\* ended, blocked with FILE_LOCKED.
C40_QueuedWriteEndsFileLocked ==
  \A s \in Sessions :
    /\ call[s].pc # "queueWrite"
    /\ (/\ call[s].ctx.toolName = "write_to_file"
        /\ call[s].entry.lockHolder \in Sessions
        /\ \E k \in DOMAIN call[s].hookLog :
             call[s].hookLog[k].hook = "staleFileDetector" /\ ~call[s].hookLog[k].threw)
         => /\ call[s].pc = "done"
            /\ call[s].ctx.blocked
            /\ call[s].result.error.type = "FILE_LOCKED"

\* a session's write found the path locked by the other session and came back
\* with FILE_LOCKED
C40_Witness ==
  \E s \in Sessions :
    /\ call[s].pc = "done"
    /\ call[s].ctx.toolName = "write_to_file"
    /\ call[s].entry.lockHolder \in Sessions \ {s}
    /\ call[s].result.error.type = "FILE_LOCKED"
    /\ waitingWrites[normalizePath(call[s].ctx.path)] = <<>>
====
